---- MODULE Spec2Model ----
(***************************************************************************)
(* Approval / pull-back reconciliation engine of the document-NFT custody  *)
(* backend: the request handlers of the pull and approval controllers, the *)
(* event monitor's handlers, the stores they write and the chain they read *)
(* and write.  Every await of a handler is a step of its own, so handlers  *)
(* interleave at their suspension points.                                  *)
(***************************************************************************)
EXTENDS Integers, Sequences, FiniteSets, TLC

VARIABLES
    nftStore,        \* NFT collection: tokenId -> document (or NoNft)
    chainOwner,      \* chain: ownerOf(tokenId), "" when the token does not exist
    chainApproved,   \* chain: the (owner, operator) pairs with isApprovedForAll
    events,          \* contract events emitted and not yet handed to a listener
    nextTx,          \* number of the next transaction mined on the chain
    chainWrites,     \* the write calls made on the contract, each with its request
    auditLog,        \* AuditLog collection, in insertion order
    pullReq,         \* the pullToken requests
    mintReq,         \* the mintDirect requests
    auditCalls,      \* the entries createAuditLog was called with, in order
    approvals,       \* Approval collection (the NFT approval ledger), in insertion order
    erc20Balance,    \* chain: ERC-20 balance of each holder
    erc20Allowance,  \* chain: ERC-20 allowance of each holder to the contract
    erc20Pullbacks,  \* ERC20Pullback collection (pull-back history), in insertion order
    erc20Req,        \* the pullBackERC20 requests
    erc20Approvals,  \* ERC20Approval collection, in insertion order
    recReq,          \* the recordApproval requests
    erc20RecReq,     \* the recordERC20Approval requests
    isMonitoring,    \* EventMonitorService.isMonitoring
    listeners,       \* contract: the listeners registered for each event kind
    pendingOn,       \* startMonitoring calls whose contract.on promises are unsettled
    handlerLog,      \* what the monitor's listeners logged, in order
    sweep,           \* the run of reconcileData
    cmp,             \* operands and verdict of the amount preconditions
    view,            \* the getConnectedRecipients request
    usdcAllowance,   \* chain: USDC allowance of each holder to the contract
    statusReq,       \* the getApprovalStatus request
    upserts,         \* ApprovalForAll handlers between their awaits
    clock,           \* wall-clock time, in steps of five minutes
    nonceStore,      \* AuthService.nonceStore: the SIWE nonces with their createdAt
    nextNonce,       \* the number of the next nonce generateNonce returns
    siweReq,         \* the verifySiweMessage calls
    encryptedCID,    \* NFT collection: encryptedCID of each document
    uploadReq        \* the uploadDocument request and its background upload

erc20Vars == <<erc20Balance, erc20Allowance, erc20Pullbacks, erc20Req>>
ledgerVars == <<erc20Approvals, recReq, erc20RecReq>>

monitorVars == <<isMonitoring, listeners, pendingOn, handlerLog>>
authVars == <<clock, nonceStore, nextNonce, siweReq>>
uploadVars == <<encryptedCID, uploadReq>>
lateVars == <<authVars, uploadVars>>
auxVars == <<monitorVars, sweep, cmp, view, usdcAllowance, statusReq, upserts, lateVars>>

vars == <<nftStore, chainOwner, chainApproved, events, nextTx, chainWrites,
          auditLog, auditCalls, pullReq, mintReq, approvals, erc20Vars, ledgerVars,
          auxVars>>

-----------------------------------------------------------------------------
(* Bounds *)

MaxPullReqs == 1
MaxTx == 3
MaxERC20Reqs == 1
MaxRecReqs == 2
MaxAmount == 2

PullReqs == 1..MaxPullReqs
MintReqs == {1}
ERC20Reqs == 1..MaxERC20Reqs
RecReqs == 1..MaxRecReqs

(* Inputs *)

Tokens == {"1"}
WalletAddress == "0xop"                 \* this.wallet.address
Holders == {"0xaa"}
OperatorInputs == {"", "0xop", "0xzz"}  \* req.body.operatorAddress
Operators == {WalletAddress}             \* the operators holders grant approval to

WalletInputs == {"", "0xAA"}             \* req.body.walletAddress / fromAddress
LedgerOperatorInputs == {"", "0xOP"}
TokenContractInputs == {"", "0xbDeaD2A7", "0xbdead2a7", "0xdead"}

TxHash(n) == "0x" \o ToString(n)
TxHashInputs == {""} \cup {TxHash(n) : n \in 1..MaxTx}

\* String.prototype.toLowerCase on the addresses used as inputs.
ToLower(a) ==
    CASE a = "0xAA" -> "0xaa"
      [] a = "0xOP" -> "0xop"
      [] a = "0xBB" -> "0xbb"
      [] a = "0xCC" -> "0xcc"
      [] a = "0xbDeaD2A7" -> "0xbdead2a7"
      [] a = "0x94a9D9AC" -> "0x94a9d9ac"
      [] OTHER -> a

-----------------------------------------------------------------------------
(* Stores *)

NoNft == [exists |-> FALSE, status |-> "", recipientAddress |-> "",
          investorAddress |-> "", mintTxHash |-> "", pullTxHash |-> ""]

NoEvent == [kind |-> "", from |-> "", to |-> "", operator |-> "", tokenId |-> "",
            approved |-> FALSE, txHash |-> ""]

NoResp == [code |-> 0, error |-> ""]

IdlePull == [pc |-> "idle", tokenId |-> "", operatorAddress |-> "",
             currentOwner |-> "", isApproved |-> "unread", txHash |-> "",
             fromAddress |-> "", resp |-> NoResp]

IdleMint == [pc |-> "idle", tokenId |-> "", recipient |-> "", investor |-> "", txHash |-> "",
             resp |-> NoResp]

\* createAuditLog(action, walletAddress, req, metadata, tokenId, txHash):
\* AuditLog.create inside a try/catch that only logs.
createAuditLog(action, walletAddress, tokenId, txHash, storeOk) ==
    LET entry == [action |-> action, walletAddress |-> ToLower(walletAddress),
                  tokenId |-> tokenId, txHash |-> txHash]
    IN /\ auditCalls' = Append(auditCalls, entry)
       /\ auditLog' = IF storeOk THEN Append(auditLog, entry) ELSE auditLog

-----------------------------------------------------------------------------
(* Document pipeline: the record of an uploaded document *)

UploadDocument(t, recipient) ==
    /\ ~nftStore[t].exists
    /\ nftStore' = [nftStore EXCEPT ![t] =
           [exists |-> TRUE, status |-> "uploaded", recipientAddress |-> recipient,
            investorAddress |-> WalletAddress, mintTxHash |-> "", pullTxHash |-> ""]]
    /\ UNCHANGED <<chainOwner, chainApproved, events, nextTx, chainWrites,
                   auditLog, auditCalls, pullReq, mintReq, approvals,
                   erc20Vars, ledgerVars, auxVars>>

-----------------------------------------------------------------------------
(* Chain: a holder grants or revokes setApprovalForAll *)

ChainSetApprovalForAll(owner, operator, approved) ==
    /\ nextTx <= MaxTx
    /\ (<<owner, operator>> \in chainApproved) # approved
    /\ chainApproved' = IF approved THEN chainApproved \cup {<<owner, operator>>}
                                    ELSE chainApproved \ {<<owner, operator>>}
    /\ events' = events \cup
           {[NoEvent EXCEPT !.kind = "ApprovalForAll", !.from = owner,
               !.operator = operator, !.approved = approved, !.txHash = TxHash(nextTx)]}
    /\ nextTx' = nextTx + 1
    /\ UNCHANGED <<nftStore, chainOwner, chainWrites, auditLog, auditCalls, pullReq, mintReq,
                   approvals,
                   erc20Vars, ledgerVars, auxVars>>

-----------------------------------------------------------------------------
(* pullToken: POST /api/pull/:tokenId *)

PullRespond(r, code, error) ==
    pullReq' = [pullReq EXCEPT ![r].pc = "done",
                               ![r].resp = [code |-> code, error |-> error]]

\* Validation of the body and NFT.findOne({tokenId}).
PullTokenFind(r, t, op, storeOk) ==
    /\ pullReq[r].pc = "idle"
    /\ \A q \in PullReqs : q < r => pullReq[q].pc # "idle"
    /\ IF op = "" THEN PullRespond(r, 400, "MissingField")
       ELSE IF ~storeOk THEN
           pullReq' = [pullReq EXCEPT ![r].pc = "done", ![r].tokenId = t,
                          ![r].operatorAddress = op,
                          ![r].resp = [code |-> 500, error |-> "PersistenceError"]]
       ELSE IF ~nftStore[t].exists THEN
           pullReq' = [pullReq EXCEPT ![r].pc = "done", ![r].tokenId = t,
                          ![r].operatorAddress = op,
                          ![r].resp = [code |-> 404, error |-> "NotFound"]]
       ELSE IF nftStore[t].status # "minted" /\ nftStore[t].status # "redeemed" THEN
           pullReq' = [pullReq EXCEPT ![r].pc = "done", ![r].tokenId = t,
                          ![r].operatorAddress = op,
                          ![r].resp = [code |-> 400, error |-> "InvalidState"]]
       ELSE
           pullReq' = [pullReq EXCEPT ![r].pc = "getOwner", ![r].tokenId = t,
                          ![r].operatorAddress = op]
    /\ UNCHANGED <<nftStore, chainOwner, chainApproved, events, nextTx, chainWrites,
                   auditLog, auditCalls, mintReq, approvals,
                   erc20Vars, ledgerVars, auxVars>>

\* Mutant: the owner is taken from the record's recipientAddress.
PullTokenGetOwnerFromRecord(r, rpcOk) ==
    /\ pullReq[r].pc = "getOwner"
    /\ IF rpcOk /\ chainOwner[pullReq[r].tokenId] # "" THEN
           pullReq' = [pullReq EXCEPT ![r].pc = "checkApproval",
                          ![r].currentOwner = nftStore[pullReq[r].tokenId].recipientAddress]
       ELSE PullRespond(r, 500, "Failed to get token owner")
    /\ UNCHANGED <<nftStore, chainOwner, chainApproved, events, nextTx, chainWrites,
                   auditLog, auditCalls, mintReq, approvals,
                   erc20Vars, ledgerVars, auxVars>>

\* blockchainService.getTokenOwner(tokenId): ownerOf throws for a token that
\* does not exist, and on any RPC failure.
PullTokenGetOwner(r, rpcOk) ==
    /\ pullReq[r].pc = "getOwner"
    /\ IF rpcOk /\ chainOwner[pullReq[r].tokenId] # "" THEN
           pullReq' = [pullReq EXCEPT ![r].pc = "checkApproval",
                          ![r].currentOwner = chainOwner[pullReq[r].tokenId]]
       ELSE PullRespond(r, 500, "Failed to get token owner")
    /\ UNCHANGED <<nftStore, chainOwner, chainApproved, events, nextTx, chainWrites,
                   auditLog, auditCalls, mintReq, approvals,
                   erc20Vars, ledgerVars, auxVars>>

\* Mutant: the approval is taken from the latest ledger row of the pair
\* instead of the live isApprovedForAll read.
PullTokenCheckApprovalFromLedger(r, rpcOk) ==
    /\ pullReq[r].pc = "checkApproval"
    /\ LET rows == {i \in 1..Len(approvals) :
                       /\ approvals[i].walletAddress = pullReq[r].currentOwner
                       /\ approvals[i].operatorAddress = ToLower(pullReq[r].operatorAddress)}
           last == CHOOSE i \in rows : \A j \in rows : j <= i
       IN IF ~rpcOk THEN PullRespond(r, 500, "Failed to check approval status")
          ELSE IF rows # {} /\ approvals[last].isApproved THEN
              pullReq' = [pullReq EXCEPT ![r].pc = "svcCheck", ![r].isApproved = "true"]
          ELSE
              pullReq' = [pullReq EXCEPT ![r].pc = "done", ![r].isApproved = "false",
                             ![r].resp = [code |-> 403, error |-> "NotApproved"]]
    /\ UNCHANGED <<nftStore, chainOwner, chainApproved, events, nextTx, chainWrites,
                   auditLog, auditCalls, mintReq, approvals,
                   erc20Vars, ledgerVars, auxVars>>

\* Mutant: a rejected pull is written to the audit log.
PullTokenCheckApprovalAuditsDenial(r, rpcOk) ==
    /\ pullReq[r].pc = "checkApproval"
    /\ IF ~rpcOk THEN
           /\ PullRespond(r, 500, "Failed to check approval status")
           /\ UNCHANGED <<auditLog, auditCalls>>
       ELSE IF <<pullReq[r].currentOwner, ToLower(pullReq[r].operatorAddress)>>
                  \in chainApproved THEN
           /\ pullReq' = [pullReq EXCEPT ![r].pc = "svcCheck", ![r].isApproved = "true"]
           /\ UNCHANGED <<auditLog, auditCalls>>
       ELSE
           /\ pullReq' = [pullReq EXCEPT ![r].pc = "done", ![r].isApproved = "false",
                              ![r].resp = [code |-> 403, error |-> "NotApproved"]]
           /\ createAuditLog("token_pulled", pullReq[r].operatorAddress,
                             pullReq[r].tokenId, "", TRUE)
    /\ UNCHANGED <<nftStore, chainOwner, chainApproved, events, nextTx, chainWrites,
                   mintReq, approvals,
                   erc20Vars, ledgerVars, auxVars>>

\* blockchainService.checkApproval(currentOwner, operatorAddress) and the 403.
PullTokenCheckApproval(r, rpcOk) ==
    /\ pullReq[r].pc = "checkApproval"
    /\ IF ~rpcOk THEN PullRespond(r, 500, "Failed to check approval status")
       ELSE IF <<pullReq[r].currentOwner, ToLower(pullReq[r].operatorAddress)>>
                  \in chainApproved THEN
           pullReq' = [pullReq EXCEPT ![r].pc = "svcCheck", ![r].isApproved = "true"]
       ELSE
           pullReq' = [pullReq EXCEPT ![r].pc = "done", ![r].isApproved = "false",
                          ![r].resp = [code |-> 403, error |-> "NotApproved"]]
    /\ UNCHANGED <<nftStore, chainOwner, chainApproved, events, nextTx, chainWrites,
                   auditLog, auditCalls, mintReq, approvals,
                   erc20Vars, ledgerVars, auxVars>>

\* BlockchainService.pullToken, first half: checkApproval(from, wallet.address);
\* every throw inside is rethrown as 'Failed to pull token'.
PullTokenSvcCheck(r, rpcOk) ==
    /\ pullReq[r].pc = "svcCheck"
    /\ IF rpcOk /\ <<pullReq[r].currentOwner, WalletAddress>> \in chainApproved
       THEN pullReq' = [pullReq EXCEPT ![r].pc = "chainPull"]
       ELSE PullRespond(r, 500, "Failed to pull token")
    /\ UNCHANGED <<nftStore, chainOwner, chainApproved, events, nextTx, chainWrites,
                   auditLog, auditCalls, mintReq, approvals,
                   erc20Vars, ledgerVars, auxVars>>

\* Mutant: pullToken goes on to the save although the chain pull failed.
PullTokenChainWriteIgnoresFailure(r, outcome) ==
    /\ pullReq[r].pc = "chainPull"
    /\ nextTx <= MaxTx
    /\ LET from == pullReq[r].currentOwner
           t == pullReq[r].tokenId
           canMine == /\ chainOwner[t] = from
                      /\ <<from, WalletAddress>> \in chainApproved
           mined == canMine /\ outcome \in {"ok", "lost"}
       IN /\ chainWrites' = chainWrites \cup
                {[call |-> "pullBack", req |-> r, from |-> from, tokenId |-> t]}
          /\ IF mined THEN
                 /\ chainOwner' = [chainOwner EXCEPT ![t] = WalletAddress]
                 /\ events' = events \cup
                      {[NoEvent EXCEPT !.kind = "Transfer", !.from = from,
                          !.to = WalletAddress, !.tokenId = t, !.txHash = TxHash(nextTx)],
                       [NoEvent EXCEPT !.kind = "TokenPulledBack", !.from = from,
                          !.operator = WalletAddress, !.tokenId = t,
                          !.txHash = TxHash(nextTx)]}
                 /\ nextTx' = nextTx + 1
             ELSE UNCHANGED <<chainOwner, events, nextTx>>
          /\ IF mined /\ outcome = "ok" THEN
                 pullReq' = [pullReq EXCEPT ![r].pc = "save", ![r].txHash = TxHash(nextTx)]
             ELSE pullReq' = [pullReq EXCEPT ![r].pc = "save"]
    /\ UNCHANGED <<nftStore, chainApproved, auditLog, auditCalls, mintReq, approvals,
                   erc20Vars, ledgerVars, auxVars>>

\* BlockchainService.pullToken, second half: contract.pullBack(from, tokenId)
\* and tx.wait().  The contract moves the token to the caller when `from` owns
\* it and has approved the caller, and reverts otherwise; the call or the wait
\* may also fail in the gateway (outcome "throw": nothing mined; "lost": mined,
\* but the wait failed).
PullTokenChainWrite(r, outcome) ==
    /\ pullReq[r].pc = "chainPull"
    /\ nextTx <= MaxTx
    /\ LET from == pullReq[r].currentOwner
           t == pullReq[r].tokenId
           canMine == /\ chainOwner[t] = from
                      /\ <<from, WalletAddress>> \in chainApproved
           mined == canMine /\ outcome \in {"ok", "lost"}
       IN /\ chainWrites' = chainWrites \cup
                {[call |-> "pullBack", req |-> r, from |-> from, tokenId |-> t]}
          /\ IF mined THEN
                 /\ chainOwner' = [chainOwner EXCEPT ![t] = WalletAddress]
                 /\ events' = events \cup
                      {[NoEvent EXCEPT !.kind = "Transfer", !.from = from,
                          !.to = WalletAddress, !.tokenId = t, !.txHash = TxHash(nextTx)],
                       [NoEvent EXCEPT !.kind = "TokenPulledBack", !.from = from,
                          !.operator = WalletAddress, !.tokenId = t,
                          !.txHash = TxHash(nextTx)]}
                 /\ nextTx' = nextTx + 1
             ELSE UNCHANGED <<chainOwner, events, nextTx>>
          /\ IF mined /\ outcome = "ok" THEN
                 pullReq' = [pullReq EXCEPT ![r].pc = "save", ![r].txHash = TxHash(nextTx)]
             ELSE PullRespond(r, 500, "Failed to pull token")
    /\ UNCHANGED <<nftStore, chainApproved, auditLog, auditCalls, mintReq, approvals,
                   erc20Vars, ledgerVars, auxVars>>

\* nft.status = 'pulled'; nft.pullTxHash = txHash; await nft.save().
PullTokenSave(r, storeOk) ==
    /\ pullReq[r].pc = "save"
    /\ IF storeOk THEN
           /\ nftStore' = [nftStore EXCEPT ![pullReq[r].tokenId].status = "pulled",
                                           ![pullReq[r].tokenId].pullTxHash = pullReq[r].txHash]
           /\ pullReq' = [pullReq EXCEPT ![r].pc = "audit"]
       ELSE
           /\ PullRespond(r, 500, "PersistenceError")
           /\ UNCHANGED nftStore
    /\ UNCHANGED <<chainOwner, chainApproved, events, nextTx, chainWrites,
                   auditLog, auditCalls, mintReq, approvals,
                   erc20Vars, ledgerVars, auxVars>>

\* Mutant: a failed audit write reaches the catch block of pullToken.
PullTokenAuditPropagates(r, storeOk) ==
    /\ pullReq[r].pc = "audit"
    /\ createAuditLog("token_pulled", pullReq[r].operatorAddress,
                      pullReq[r].tokenId, pullReq[r].txHash, storeOk)
    /\ IF storeOk
       THEN pullReq' = [pullReq EXCEPT ![r].pc = "done",
                           ![r].fromAddress = pullReq[r].currentOwner,
                           ![r].resp = [code |-> 200, error |-> ""]]
       ELSE PullRespond(r, 500, "PersistenceError")
    /\ UNCHANGED <<nftStore, chainOwner, chainApproved, events, nextTx, chainWrites,
                   mintReq, approvals,
                   erc20Vars, ledgerVars, auxVars>>

\* createAuditLog('token_pulled', ...) and the success response, whose
\* fromAddress is currentOwner.
PullTokenAudit(r, storeOk) ==
    /\ pullReq[r].pc = "audit"
    /\ createAuditLog("token_pulled", pullReq[r].operatorAddress,
                      pullReq[r].tokenId, pullReq[r].txHash, storeOk)
    /\ pullReq' = [pullReq EXCEPT ![r].pc = "done",
                      ![r].fromAddress = pullReq[r].currentOwner,
                      ![r].resp = [code |-> 200, error |-> ""]]
    /\ UNCHANGED <<nftStore, chainOwner, chainApproved, events, nextTx, chainWrites,
                   mintReq, approvals,
                   erc20Vars, ledgerVars, auxVars>>

-----------------------------------------------------------------------------
(* mintDirect: POST /api/mint-direct *)

MintRespond(m, code, error) ==
    mintReq' = [mintReq EXCEPT ![m].pc = "done",
                               ![m].resp = [code |-> code, error |-> error]]

\* Validation of the body and NFT.findOne({tokenId}).
MintDirectFind(m, t, storeOk) ==
    /\ mintReq[m].pc = "idle"
    /\ \A q \in MintReqs : q < m => mintReq[q].pc # "idle"
    /\ IF t = "" THEN
           mintReq' = [mintReq EXCEPT ![m].pc = "done",
                          ![m].resp = [code |-> 400, error |-> "MissingField"]]
       ELSE IF ~storeOk THEN
           mintReq' = [mintReq EXCEPT ![m].pc = "done", ![m].tokenId = t,
                          ![m].resp = [code |-> 500, error |-> "PersistenceError"]]
       ELSE IF ~nftStore[t].exists THEN
           mintReq' = [mintReq EXCEPT ![m].pc = "done", ![m].tokenId = t,
                          ![m].resp = [code |-> 404, error |-> "NotFound"]]
       ELSE
           mintReq' = [mintReq EXCEPT ![m].pc = "chainMint", ![m].tokenId = t,
                          ![m].recipient = nftStore[t].recipientAddress,
                          ![m].investor = nftStore[t].investorAddress]
    /\ UNCHANGED <<nftStore, chainOwner, chainApproved, events, nextTx, chainWrites,
                   auditLog, auditCalls, pullReq, approvals,
                   erc20Vars, ledgerVars, auxVars>>

\* BlockchainService.mintDirect: contract.mintTo(recipient, tokenURI) and
\* tx.wait().  The contract numbers the new token itself (`id`).
MintDirectChainWrite(m, id, outcome) ==
    /\ mintReq[m].pc = "chainMint"
    /\ nextTx <= MaxTx
    /\ chainOwner[id] = ""
    /\ LET to == mintReq[m].recipient
           mined == outcome \in {"ok", "lost"}
       IN /\ chainWrites' = chainWrites \cup
                {[call |-> "mintTo", req |-> m, from |-> to, tokenId |-> id]}
          /\ IF mined THEN
                 /\ chainOwner' = [chainOwner EXCEPT ![id] = to]
                 /\ events' = events \cup
                      {[NoEvent EXCEPT !.kind = "Transfer", !.to = to, !.tokenId = id,
                          !.txHash = TxHash(nextTx)],
                       [NoEvent EXCEPT !.kind = "TokenMinted", !.to = to, !.tokenId = id,
                          !.txHash = TxHash(nextTx)]}
                 /\ nextTx' = nextTx + 1
             ELSE UNCHANGED <<chainOwner, events, nextTx>>
          /\ IF outcome = "ok"
             THEN mintReq' = [mintReq EXCEPT ![m].pc = "save", ![m].txHash = TxHash(nextTx)]
             ELSE MintRespond(m, 500, "Failed to mint NFT on-chain")
    /\ UNCHANGED <<nftStore, chainApproved, auditLog, auditCalls, pullReq, approvals,
                   erc20Vars, ledgerVars, auxVars>>

\* nft.status = "minted"; nft.mintTxHash = txHash; await nft.save().
MintDirectSave(m, storeOk) ==
    /\ mintReq[m].pc = "save"
    /\ IF storeOk THEN
           /\ nftStore' = [nftStore EXCEPT ![mintReq[m].tokenId].status = "minted",
                                           ![mintReq[m].tokenId].mintTxHash = mintReq[m].txHash]
           /\ mintReq' = [mintReq EXCEPT ![m].pc = "audit"]
       ELSE
           /\ MintRespond(m, 500, "PersistenceError")
           /\ UNCHANGED nftStore
    /\ UNCHANGED <<chainOwner, chainApproved, events, nextTx, chainWrites,
                   auditLog, auditCalls, pullReq, approvals,
                   erc20Vars, ledgerVars, auxVars>>

\* createAuditLog("nft_minted", ...) and the success response.
MintDirectAudit(m, storeOk) ==
    /\ mintReq[m].pc = "audit"
    /\ createAuditLog("nft_minted", mintReq[m].investor,
                      mintReq[m].tokenId, mintReq[m].txHash, storeOk)
    /\ MintRespond(m, 200, "")
    /\ UNCHANGED <<nftStore, chainOwner, chainApproved, events, nextTx, chainWrites,
                   pullReq, approvals,
                   erc20Vars, ledgerVars, auxVars>>

-----------------------------------------------------------------------------
(* Event monitor: the four listeners.  A listener takes an emitted event and  *)
(* runs its handler; every handler catches what it throws.                    *)

\* handleTransferEvent: finds the record and sets status on the loaded
\* document only; the document is never saved.
handleTransferEvent(e) ==
    /\ e \in events /\ e.kind = "Transfer"
    /\ events' = events \ {e}
    /\ UNCHANGED <<nftStore, chainOwner, chainApproved, nextTx, chainWrites,
                   auditLog, auditCalls, pullReq, mintReq, approvals,
                   erc20Vars, ledgerVars, auxVars>>

\* Approval.findOneAndUpdate({walletAddress, operatorAddress}, {...}, {upsert}):
\* the first row of the pair is overwritten, or a row is inserted; the unique
\* index on txHash rejects a txHash that another row holds.
UpsertApproval(rows, row) ==
    LET match == {i \in 1..Len(rows) :
                     /\ rows[i].walletAddress = row.walletAddress
                     /\ rows[i].operatorAddress = row.operatorAddress}
        first == CHOOSE i \in match : \A j \in match : i <= j
        clash(skip) == \E i \in 1..Len(rows) : i # skip /\ rows[i].txHash = row.txHash
    IN IF match = {}
       THEN IF clash(0) THEN rows ELSE Append(rows, row)
       ELSE IF clash(first) THEN rows ELSE [rows EXCEPT ![first] = row]

handleApprovalForAllEvent(e, storeOk) ==
    /\ e \in events /\ e.kind = "ApprovalForAll"
    /\ events' = events \ {e}
    /\ approvals' = IF storeOk
                    THEN UpsertApproval(approvals,
                           [walletAddress |-> ToLower(e.from),
                            operatorAddress |-> ToLower(e.operator),
                            isApproved |-> e.approved, txHash |-> e.txHash])
                    ELSE approvals
    /\ UNCHANGED <<nftStore, chainOwner, chainApproved, nextTx, chainWrites,
                   auditLog, auditCalls, pullReq, mintReq,
                   erc20Vars, ledgerVars, auxVars>>

\* handleApprovalForAllEvent up to its first await: the listener takes the
\* event and the handler awaits provider.getBlock. Listeners are not awaited
\* by the emitter: handlers of several events are in flight together.
ApprovalForAllGetBlock(e) ==
    /\ e \in events /\ e.kind = "ApprovalForAll"
    /\ events' = events \ {e}
    /\ upserts' = upserts \cup {[event |-> e, pc |-> "getBlock"]}
    /\ UNCHANGED <<nftStore, chainOwner, chainApproved, nextTx, chainWrites,
                   auditLog, auditCalls, pullReq, mintReq, approvals,
                   erc20Vars, ledgerVars, monitorVars, sweep, cmp, view, usdcAllowance,
                   statusReq, lateVars>>

\* The row a handler writes.
ApprovalRowOf(e) ==
    [walletAddress |-> ToLower(e.from), operatorAddress |-> ToLower(e.operator),
     isApproved |-> e.approved, txHash |-> e.txHash]

\* Approval.findOneAndUpdate({walletAddress, operatorAddress}, ..., {upsert}),
\* the store's query for the pair: a row found is overwritten in the same
\* step; with no row found the store goes on to insert one. The index on the
\* pair is not unique, so nothing keeps two upserts of one pair from both
\* finding no row.
ApprovalForAllFind(h) ==
    /\ h \in upserts /\ h.pc = "getBlock"
    /\ LET row == ApprovalRowOf(h.event)
           match == {i \in 1..Len(approvals) :
                        /\ approvals[i].walletAddress = row.walletAddress
                        /\ approvals[i].operatorAddress = row.operatorAddress}
           first == CHOOSE i \in match : \A j \in match : i <= j
           clash == \E i \in 1..Len(approvals) :
                       i # first /\ approvals[i].txHash = row.txHash
       IN IF match = {}
          THEN /\ upserts' = (upserts \ {h}) \cup {[h EXCEPT !.pc = "insert"]}
               /\ approvals' = approvals
          ELSE /\ upserts' = upserts \ {h}
               /\ approvals' = IF clash THEN approvals
                                ELSE [approvals EXCEPT ![first] = row]
    /\ UNCHANGED <<nftStore, chainOwner, chainApproved, events, nextTx, chainWrites,
                   auditLog, auditCalls, pullReq, mintReq,
                   erc20Vars, ledgerVars, monitorVars, sweep, cmp, view, usdcAllowance,
                   statusReq, lateVars>>

\* The insert of an upsert that found no row; the unique index on txHash
\* rejects a second row with the same txHash, and the handler's catch logs it.
ApprovalForAllInsert(h) ==
    /\ h \in upserts /\ h.pc = "insert"
    /\ upserts' = upserts \ {h}
    /\ approvals' = IF \A i \in 1..Len(approvals) :
                            approvals[i].txHash # h.event.txHash
                    THEN Append(approvals, ApprovalRowOf(h.event))
                    ELSE approvals
    /\ UNCHANGED <<nftStore, chainOwner, chainApproved, events, nextTx, chainWrites,
                   auditLog, auditCalls, pullReq, mintReq,
                   erc20Vars, ledgerVars, monitorVars, sweep, cmp, view, usdcAllowance,
                   statusReq, lateVars>>

\* NFT.findOneAndUpdate({tokenId}, {status: 'pulled', pullTxHash}): no upsert.
handleTokenPulledBackEvent(e, storeOk) ==
    /\ e \in events /\ e.kind = "TokenPulledBack"
    /\ events' = events \ {e}
    /\ nftStore' = IF storeOk /\ nftStore[e.tokenId].exists
                   THEN [nftStore EXCEPT ![e.tokenId].status = "pulled",
                                         ![e.tokenId].pullTxHash = e.txHash]
                   ELSE nftStore
    /\ UNCHANGED <<chainOwner, chainApproved, nextTx, chainWrites,
                   auditLog, auditCalls, pullReq, mintReq, approvals,
                   erc20Vars, ledgerVars, auxVars>>

\* NFT.findOneAndUpdate({tokenId}, {status: 'minted', mintTxHash}): no upsert.
handleTokenMintedEvent(e, storeOk) ==
    /\ e \in events /\ e.kind = "TokenMinted"
    /\ events' = events \ {e}
    /\ nftStore' = IF storeOk /\ nftStore[e.tokenId].exists
                   THEN [nftStore EXCEPT ![e.tokenId].status = "minted",
                                         ![e.tokenId].mintTxHash = e.txHash]
                   ELSE nftStore
    /\ UNCHANGED <<chainOwner, chainApproved, nextTx, chainWrites,
                   auditLog, auditCalls, pullReq, mintReq, approvals,
                   erc20Vars, ledgerVars, auxVars>>

-----------------------------------------------------------------------------
(* Amounts: decimal strings in the smallest unit, as sequences of digits *)

RECURSIVE BigIntFrom(_, _)
BigIntFrom(digits, acc) ==
    IF digits = <<>> THEN acc
    ELSE BigIntFrom(Tail(digits), acc * 10 + Head(digits))

\* BigInt(s) for a string of decimal digits.
BigInt(digits) == BigIntFrom(digits, 0)

RECURSIVE StripZeros(_)
StripZeros(digits) ==
    IF Len(digits) > 1 /\ Head(digits) = 0 THEN StripZeros(Tail(digits)) ELSE digits

\* Mutant: the string is parsed as a floating-point number, of which sixteen
\* significant digits survive.
NumberDigits(digits) ==
    LET d == IF digits = <<>> THEN <<0>> ELSE StripZeros(digits)
    IN [i \in 1..Len(d) |-> IF i <= 16 THEN d[i] ELSE 0]

\* BigInt(s) without a width: the integer as its decimal digits, most
\* significant first, no leading zero; BigInt('') is 0n.
BigIntDigits(digits) ==
    IF digits = <<>> THEN <<0>> ELSE StripZeros(digits)

\* x < y of two BigInt values.
BigIntLess(x, y) ==
    \/ Len(x) < Len(y)
    \/ /\ Len(x) = Len(y)
       /\ \E i \in 1..Len(x) : x[i] < y[i] /\ \A j \in 1..(i - 1) : x[j] = y[j]

\* The two preconditions of pullBackERC20 on the amount, in the order of the
\* code: the allowance first, then the balance.
ERC20Precheck(amount, allowance, balance) ==
    IF BigIntLess(BigIntDigits(allowance), BigIntDigits(amount))
    THEN "InsufficientAllowance"
    ELSE IF BigIntLess(BigIntDigits(balance), BigIntDigits(amount))
    THEN "InsufficientBalance"
    ELSE "Sufficient"

RECURSIVE DecimalString(_)
\* n.toString() of a non-negative integer.
DecimalString(n) ==
    IF n < 10 THEN <<n>> ELSE Append(DecimalString(n \div 10), n % 10)

-----------------------------------------------------------------------------
(* Chain: the ERC-20 token.  A holder's approve transaction sets the         *)
(* allowance given to the contract; transfers to and from the holder, whose  *)
(* transactions the backend never sees, change the balance.                  *)

ChainSetAllowance(h, v) ==
    /\ nextTx <= MaxTx
    /\ erc20Allowance[h] # v
    /\ erc20Allowance' = [erc20Allowance EXCEPT ![h] = v]
    /\ nextTx' = nextTx + 1
    /\ UNCHANGED <<nftStore, chainOwner, chainApproved, events, chainWrites,
                   auditLog, auditCalls, pullReq, mintReq, approvals,
                   erc20Balance, erc20Pullbacks, erc20Req, ledgerVars, auxVars>>

ChainSetBalance(h, v) ==
    /\ erc20Balance[h] # v
    /\ erc20Balance' = [erc20Balance EXCEPT ![h] = v]
    /\ UNCHANGED <<nftStore, chainOwner, chainApproved, events, nextTx, chainWrites,
                   auditLog, auditCalls, pullReq, mintReq, approvals,
                   erc20Allowance, erc20Pullbacks, erc20Req, ledgerVars, auxVars>>

-----------------------------------------------------------------------------
(* ERC20Pullback collection *)

\* Schema: txHash is { type: String, required: true, unique: true }.  The
\* required validator of a String path rejects the empty string; the unique
\* index rejects a txHash that a stored row holds.
ERC20PullbackAccepts(rows, row) ==
    /\ row.txHash # ""
    /\ \A i \in 1..Len(rows) : rows[i].txHash # row.txHash

\* ERC20Pullback.create(row): the rows afterwards.
ERC20PullbackCreate(rows, row, storeOk) ==
    IF storeOk /\ ERC20PullbackAccepts(rows, row) THEN Append(rows, row) ELSE rows

-----------------------------------------------------------------------------
(* pullBackERC20: POST /api/erc20/pull *)

IdleERC20 == [pc |-> "idle", tokenContract |-> "", fromAddress |-> "", amount |-> <<>>,
              operatorAddress |-> "",
              txHash |-> "", confirmed |-> FALSE, recorded |-> "no",
              error |-> "", failureStore |-> FALSE, resp |-> NoResp]

ERC20Respond(q, code, error) ==
    erc20Req' = [erc20Req EXCEPT ![q].pc = "done",
                                 ![q].resp = [code |-> code, error |-> error]]

\* A throw inside the try block: control passes to the catch block.
ERC20Throw(q, message) ==
    erc20Req' = [erc20Req EXCEPT ![q].pc = "catch", ![q].error = message]

\* Validation of the body, then getERC20TokenInfo(tokenContract).
PullBackERC20Begin(q, tokenContract, fromAddress, amount, operatorAddress, rpcOk) ==
    /\ erc20Req[q].pc = "idle"
    /\ \A p \in DOMAIN erc20Req : p < q => erc20Req[p].pc # "idle"
    /\ LET req == [erc20Req[q] EXCEPT !.tokenContract = tokenContract,
                      !.fromAddress = fromAddress, !.amount = amount,
                      !.operatorAddress = operatorAddress]
       IN IF tokenContract = "" \/ fromAddress = "" \/ amount = <<>> \/ operatorAddress = ""
          THEN ERC20Respond(q, 400, "MissingField")
          ELSE IF rpcOk
          THEN erc20Req' = [erc20Req EXCEPT ![q] = [req EXCEPT !.pc = "checkStatus"]]
          ELSE erc20Req' = [erc20Req EXCEPT ![q] =
                   [req EXCEPT !.pc = "catch", !.error = "Failed to get token information"]]
    /\ UNCHANGED <<nftStore, chainOwner, chainApproved, events, nextTx, chainWrites,
                   auditLog, auditCalls, pullReq, mintReq, approvals,
                   erc20Balance, erc20Allowance, erc20Pullbacks, ledgerVars, auxVars>>

\* Mutant: the controller checks the balance before the allowance.
PullBackERC20CheckStatusBalanceFirst(q, rpcOk) ==
    /\ erc20Req[q].pc = "checkStatus"
    /\ LET allowance == DecimalString(erc20Allowance[ToLower(erc20Req[q].fromAddress)])
           balance == DecimalString(erc20Balance[ToLower(erc20Req[q].fromAddress)])
       IN IF ~rpcOk THEN ERC20Throw(q, "Failed to check ERC-20 token status")
          ELSE IF BigInt(balance) < BigInt(erc20Req[q].amount) THEN
              ERC20Respond(q, 400, "InsufficientBalance")
          ELSE IF BigInt(allowance) < BigInt(erc20Req[q].amount) THEN
              ERC20Respond(q, 400, "InsufficientAllowance")
          ELSE
              erc20Req' = [erc20Req EXCEPT ![q].pc = "svcStatus"]
    /\ UNCHANGED <<nftStore, chainOwner, chainApproved, events, nextTx, chainWrites,
                   auditLog, auditCalls, pullReq, mintReq, approvals,
                   erc20Balance, erc20Allowance, erc20Pullbacks, ledgerVars, auxVars>>

\* Mutant: the controller compares the balance only.
PullBackERC20CheckStatusNoAllowance(q, rpcOk) ==
    /\ erc20Req[q].pc = "checkStatus"
    /\ LET balance == DecimalString(erc20Balance[ToLower(erc20Req[q].fromAddress)])
       IN IF ~rpcOk THEN ERC20Throw(q, "Failed to check ERC-20 token status")
          ELSE IF BigInt(balance) < BigInt(erc20Req[q].amount) THEN
              ERC20Respond(q, 400, "InsufficientBalance")
          ELSE
              erc20Req' = [erc20Req EXCEPT ![q].pc = "svcStatus"]
    /\ UNCHANGED <<nftStore, chainOwner, chainApproved, events, nextTx, chainWrites,
                   auditLog, auditCalls, pullReq, mintReq, approvals,
                   erc20Balance, erc20Allowance, erc20Pullbacks, ledgerVars, auxVars>>

\* blockchainService.checkERC20Status(tokenContract, fromAddress) and the two
\* BigInt comparisons.
PullBackERC20CheckStatus(q, rpcOk) ==
    /\ erc20Req[q].pc = "checkStatus"
    /\ LET allowance == DecimalString(erc20Allowance[ToLower(erc20Req[q].fromAddress)])
           balance == DecimalString(erc20Balance[ToLower(erc20Req[q].fromAddress)])
           verdict == ERC20Precheck(erc20Req[q].amount, allowance, balance)
       IN IF ~rpcOk THEN ERC20Throw(q, "Failed to check ERC-20 token status")
          ELSE IF verdict # "Sufficient" THEN ERC20Respond(q, 400, verdict)
          ELSE erc20Req' = [erc20Req EXCEPT ![q].pc = "svcStatus"]
    /\ UNCHANGED <<nftStore, chainOwner, chainApproved, events, nextTx, chainWrites,
                   auditLog, auditCalls, pullReq, mintReq, approvals,
                   erc20Balance, erc20Allowance, erc20Pullbacks, ledgerVars, auxVars>>

\* BlockchainService.pullBackERC20, first half: checkERC20Status again and the
\* same comparisons; every throw is rethrown as 'Failed to pull back ERC-20 tokens'.
PullBackERC20SvcStatus(q, rpcOk) ==
    /\ erc20Req[q].pc = "svcStatus"
    /\ LET allowance == DecimalString(erc20Allowance[ToLower(erc20Req[q].fromAddress)])
           balance == DecimalString(erc20Balance[ToLower(erc20Req[q].fromAddress)])
       IN IF rpcOk /\ ERC20Precheck(erc20Req[q].amount, allowance, balance) = "Sufficient"
          THEN erc20Req' = [erc20Req EXCEPT ![q].pc = "chainWrite"]
          ELSE ERC20Throw(q, "Failed to pull back ERC-20 tokens")
    /\ UNCHANGED <<nftStore, chainOwner, chainApproved, events, nextTx, chainWrites,
                   auditLog, auditCalls, pullReq, mintReq, approvals,
                   erc20Balance, erc20Allowance, erc20Pullbacks, ledgerVars, auxVars>>

\* BlockchainService.pullBackERC20, second half: contract.pullBackERC20(...)
\* and tx.wait().  The token moves the amount when allowance and balance cover
\* it and reverts otherwise; "throw": nothing mined, "lost": mined but the
\* wait failed.
PullBackERC20ChainWrite(q, outcome) ==
    /\ erc20Req[q].pc = "chainWrite"
    /\ nextTx <= MaxTx
    /\ LET from == ToLower(erc20Req[q].fromAddress)
           amount == BigInt(erc20Req[q].amount)
           canMine == erc20Allowance[from] >= amount /\ erc20Balance[from] >= amount
           mined == canMine /\ outcome \in {"ok", "lost"}
       IN /\ chainWrites' = chainWrites \cup
                {[call |-> "pullBackERC20", req |-> q, from |-> from,
                  tokenId |-> erc20Req[q].tokenContract]}
          /\ IF mined THEN
                 /\ erc20Allowance' = [erc20Allowance EXCEPT ![from] = @ - amount]
                 /\ erc20Balance' = [erc20Balance EXCEPT ![from] = @ - amount]
                 /\ nextTx' = nextTx + 1
             ELSE UNCHANGED <<erc20Allowance, erc20Balance, nextTx>>
          /\ IF mined /\ outcome = "ok"
             THEN erc20Req' = [erc20Req EXCEPT ![q].pc = "wait", ![q].txHash = TxHash(nextTx)]
             ELSE ERC20Throw(q, "Failed to pull back ERC-20 tokens")
    /\ UNCHANGED <<nftStore, chainOwner, chainApproved, events,
                   auditLog, auditCalls, pullReq, mintReq, approvals,
                   erc20Pullbacks, ledgerVars, auxVars>>

\* blockchainService.waitForTransaction(txHash).
PullBackERC20Wait(q, rpcOk) ==
    /\ erc20Req[q].pc = "wait"
    /\ IF rpcOk
       THEN erc20Req' = [erc20Req EXCEPT ![q].pc = "record", ![q].confirmed = TRUE]
       ELSE ERC20Throw(q, "Transaction confirmation failed")
    /\ UNCHANGED <<nftStore, chainOwner, chainApproved, events, nextTx, chainWrites,
                   auditLog, auditCalls, pullReq, mintReq, approvals,
                   erc20Balance, erc20Allowance, erc20Pullbacks, ledgerVars, auxVars>>

\* Mutant: a rejected history write is swallowed and the request goes on.
PullBackERC20RecordSwallows(q, storeOk) ==
    /\ erc20Req[q].pc = "record"
    /\ LET row == [tokenContract |-> ToLower(erc20Req[q].tokenContract),
                   fromAddress |-> ToLower(erc20Req[q].fromAddress),
                   operatorAddress |-> ToLower(erc20Req[q].operatorAddress),
                   amount |-> erc20Req[q].amount, txHash |-> erc20Req[q].txHash,
                   status |-> "completed", errorMessage |-> ""]
       IN /\ erc20Pullbacks' = ERC20PullbackCreate(erc20Pullbacks, row, storeOk)
          /\ erc20Req' = [erc20Req EXCEPT ![q].pc = "audit", ![q].recorded = "yes"]
    /\ UNCHANGED <<nftStore, chainOwner, chainApproved, events, nextTx, chainWrites,
                   auditLog, auditCalls, pullReq, mintReq, approvals,
                   erc20Balance, erc20Allowance, ledgerVars, auxVars>>

\* ERC20Pullback.create({..., txHash, status: 'completed'}).
PullBackERC20Record(q, storeOk) ==
    /\ erc20Req[q].pc = "record"
    /\ LET row == [tokenContract |-> ToLower(erc20Req[q].tokenContract),
                   fromAddress |-> ToLower(erc20Req[q].fromAddress),
                   operatorAddress |-> ToLower(erc20Req[q].operatorAddress),
                   amount |-> erc20Req[q].amount, txHash |-> erc20Req[q].txHash,
                   status |-> "completed", errorMessage |-> ""]
       IN /\ erc20Pullbacks' = ERC20PullbackCreate(erc20Pullbacks, row, storeOk)
          /\ IF storeOk /\ ERC20PullbackAccepts(erc20Pullbacks, row)
             THEN erc20Req' = [erc20Req EXCEPT ![q].pc = "audit", ![q].recorded = "yes"]
             ELSE erc20Req' = [erc20Req EXCEPT ![q].pc = "catch", ![q].recorded = "failed",
                                  ![q].error = "PersistenceError"]
    /\ UNCHANGED <<nftStore, chainOwner, chainApproved, events, nextTx, chainWrites,
                   auditLog, auditCalls, pullReq, mintReq, approvals,
                   erc20Balance, erc20Allowance, ledgerVars, auxVars>>

\* Mutant: the success response is sent without the audit call.
PullBackERC20AuditSkipped(q, storeOk) ==
    /\ erc20Req[q].pc = "audit"
    /\ ERC20Respond(q, 200, "")
    /\ UNCHANGED <<nftStore, chainOwner, chainApproved, events, nextTx, chainWrites,
                   auditLog, auditCalls,
                   pullReq, mintReq, approvals,
                   erc20Balance, erc20Allowance, erc20Pullbacks, ledgerVars, auxVars>>

\* createAuditLog('erc20_pulled', ...) and the success response.
PullBackERC20Audit(q, storeOk) ==
    /\ erc20Req[q].pc = "audit"
    /\ createAuditLog("erc20_pulled", erc20Req[q].operatorAddress,
                      erc20Req[q].fromAddress, erc20Req[q].txHash, storeOk)
    /\ ERC20Respond(q, 200, "")
    /\ UNCHANGED <<nftStore, chainOwner, chainApproved, events, nextTx, chainWrites,
                   pullReq, mintReq, approvals,
                   erc20Balance, erc20Allowance, erc20Pullbacks, ledgerVars, auxVars>>

\* The catch block, first await: with tokenContract and fromAddress in the
\* body, getERC20TokenInfo again; a throw here is logged only.
PullBackERC20Catch(q, rpcOk) ==
    /\ erc20Req[q].pc = "catch"
    /\ IF erc20Req[q].tokenContract # "" /\ erc20Req[q].fromAddress # "" /\ rpcOk
       THEN erc20Req' = [erc20Req EXCEPT ![q].pc = "catchRecord"]
       ELSE ERC20Respond(q, 500, erc20Req[q].error)
    /\ UNCHANGED <<nftStore, chainOwner, chainApproved, events, nextTx, chainWrites,
                   auditLog, auditCalls, pullReq, mintReq, approvals,
                   erc20Balance, erc20Allowance, erc20Pullbacks, ledgerVars, auxVars>>

\* Mutant: a failure write that fails answers with its own error.
PullBackERC20CatchRecordRethrows(q, storeOk) ==
    /\ erc20Req[q].pc = "catchRecord"
    /\ LET row == [tokenContract |-> ToLower(erc20Req[q].tokenContract),
                   fromAddress |-> ToLower(erc20Req[q].fromAddress),
                   operatorAddress |-> ToLower(erc20Req[q].operatorAddress),
                   amount |-> erc20Req[q].amount, txHash |-> "",
                   status |-> "failed", errorMessage |-> erc20Req[q].error]
       IN /\ erc20Pullbacks' = ERC20PullbackCreate(erc20Pullbacks, row, storeOk)
          /\ erc20Req' = [erc20Req EXCEPT ![q].pc = "done", ![q].failureStore = storeOk,
                 ![q].resp = [code |-> 500, error |->
                     IF storeOk /\ ERC20PullbackAccepts(erc20Pullbacks, row)
                     THEN erc20Req[q].error ELSE "PersistenceError"]]
    /\ UNCHANGED <<nftStore, chainOwner, chainApproved, events, nextTx, chainWrites,
                   auditLog, auditCalls, pullReq, mintReq, approvals,
                   erc20Balance, erc20Allowance, ledgerVars, auxVars>>

\* The catch block, second await: ERC20Pullback.create({..., txHash: '',
\* status: 'failed', errorMessage}); a throw here is logged only.  The
\* response carries the original error.
PullBackERC20CatchRecord(q, storeOk) ==
    /\ erc20Req[q].pc = "catchRecord"
    /\ LET row == [tokenContract |-> ToLower(erc20Req[q].tokenContract),
                   fromAddress |-> ToLower(erc20Req[q].fromAddress),
                   operatorAddress |-> ToLower(erc20Req[q].operatorAddress),
                   amount |-> erc20Req[q].amount, txHash |-> "",
                   status |-> "failed", errorMessage |-> erc20Req[q].error]
       IN erc20Pullbacks' = ERC20PullbackCreate(erc20Pullbacks, row, storeOk)
    /\ erc20Req' = [erc20Req EXCEPT ![q].pc = "done", ![q].failureStore = storeOk,
           ![q].resp = [code |-> 500, error |-> erc20Req[q].error]]
    /\ UNCHANGED <<nftStore, chainOwner, chainApproved, events, nextTx, chainWrites,
                   auditLog, auditCalls, pullReq, mintReq, approvals,
                   erc20Balance, erc20Allowance, ledgerVars, auxVars>>

-----------------------------------------------------------------------------
(* Approval ledger: the client-report path *)

\* provider.getTransactionReceipt(txHash): the receipt of a mined transaction,
\* null otherwise (and null when the lookup throws).  In a request, "known"
\* is a history field: whether the ledger held the txHash when the call came.
HasReceipt(txHash) == \E n \in 1..(nextTx - 1) : TxHash(n) = txHash

NoRow == [walletAddress |-> "", operatorAddress |-> "", tokenContract |-> "",
          tokenSymbol |-> "", isApproved |-> FALSE, txHash |-> ""]

IdleRec == [pc |-> "idle", walletAddress |-> "", operatorAddress |-> "",
            tokenContract |-> "", txHash |-> "", isApproved |-> FALSE,
            receiptLookups |-> 0, approval |-> NoRow, alreadyRecorded |-> FALSE,
            known |-> FALSE, resp |-> NoResp]

\* Approval schema: txHash is { required: true, unique: true }.
ApprovalAccepts(rows, row) ==
    /\ row.txHash # ""
    /\ \A i \in 1..Len(rows) : rows[i].txHash # row.txHash

\* Mutant: a report whose transaction has no receipt is audited.
RecordApprovalBeginAuditsRejection(c, walletAddress, operatorAddress, txHash, rpcOk) ==
    /\ recReq[c].pc = "idle"
    /\ \A p \in DOMAIN recReq : p < c => recReq[p].pc # "idle"
    /\ LET req == [recReq[c] EXCEPT !.walletAddress = walletAddress,
                      !.operatorAddress = operatorAddress, !.txHash = txHash,
                      !.known = \E i \in 1..Len(approvals) : approvals[i].txHash = txHash]
       IN IF walletAddress = "" \/ operatorAddress = "" \/ txHash = ""
          THEN /\ recReq' = [recReq EXCEPT ![c].pc = "done",
                                ![c].resp = [code |-> 400, error |-> "MissingField"]]
               /\ UNCHANGED <<auditLog, auditCalls>>
          ELSE IF rpcOk /\ HasReceipt(txHash)
          THEN /\ recReq' = [recReq EXCEPT ![c] =
                      [req EXCEPT !.pc = "checkApproval", !.receiptLookups = @ + 1]]
               /\ UNCHANGED <<auditLog, auditCalls>>
          ELSE /\ recReq' = [recReq EXCEPT ![c] =
                      [req EXCEPT !.pc = "done", !.receiptLookups = @ + 1,
                                  !.resp = [code |-> 400, error |-> "TransactionNotFound"]]]
               /\ createAuditLog("approval_rejected", walletAddress, "", txHash, TRUE)
    /\ UNCHANGED <<nftStore, chainOwner, chainApproved, events, nextTx, chainWrites,
                   pullReq, mintReq, approvals, erc20Vars,
                   erc20Approvals, erc20RecReq, auxVars>>

\* recordApproval: validation of the body and getTransactionReceipt(txHash).
RecordApprovalBegin(c, walletAddress, operatorAddress, txHash, rpcOk) ==
    /\ recReq[c].pc = "idle"
    /\ \A p \in DOMAIN recReq : p < c => recReq[p].pc # "idle"
    /\ LET req == [recReq[c] EXCEPT !.walletAddress = walletAddress,
                      !.operatorAddress = operatorAddress, !.txHash = txHash,
                      !.known = \E i \in 1..Len(approvals) : approvals[i].txHash = txHash]
       IN IF walletAddress = "" \/ operatorAddress = "" \/ txHash = ""
          THEN recReq' = [recReq EXCEPT ![c].pc = "done",
                             ![c].resp = [code |-> 400, error |-> "MissingField"]]
          ELSE IF rpcOk /\ HasReceipt(txHash)
          THEN recReq' = [recReq EXCEPT ![c] =
                   [req EXCEPT !.pc = "checkApproval", !.receiptLookups = @ + 1]]
          ELSE recReq' = [recReq EXCEPT ![c] =
                   [req EXCEPT !.pc = "done", !.receiptLookups = @ + 1,
                               !.resp = [code |-> 400, error |-> "TransactionNotFound"]]]
    /\ UNCHANGED <<nftStore, chainOwner, chainApproved, events, nextTx, chainWrites,
                   auditLog, auditCalls, pullReq, mintReq, approvals, erc20Vars,
                   erc20Approvals, erc20RecReq, auxVars>>

\* recordApproval: blockchainService.checkApproval(walletAddress, operatorAddress).
RecordApprovalCheck(c, rpcOk) ==
    /\ recReq[c].pc = "checkApproval"
    /\ IF rpcOk
       THEN recReq' = [recReq EXCEPT ![c].pc = "create",
               ![c].isApproved = <<ToLower(recReq[c].walletAddress),
                                   ToLower(recReq[c].operatorAddress)>> \in chainApproved]
       ELSE recReq' = [recReq EXCEPT ![c].pc = "done",
               ![c].resp = [code |-> 500, error |-> "Failed to check approval status"]]
    /\ UNCHANGED <<nftStore, chainOwner, chainApproved, events, nextTx, chainWrites,
                   auditLog, auditCalls, pullReq, mintReq, approvals, erc20Vars,
                   erc20Approvals, erc20RecReq, auxVars>>

\* recordApproval: Approval.create({...}); a rejected insert throws into the
\* catch block, which answers 500.
RecordApprovalCreate(c, storeOk) ==
    /\ recReq[c].pc = "create"
    /\ LET row == [walletAddress |-> ToLower(recReq[c].walletAddress),
                   operatorAddress |-> ToLower(recReq[c].operatorAddress),
                   isApproved |-> recReq[c].isApproved, txHash |-> recReq[c].txHash]
       IN IF storeOk /\ ApprovalAccepts(approvals, row)
          THEN /\ approvals' = Append(approvals, row)
               /\ recReq' = [recReq EXCEPT ![c].pc = "audit", ![c].approval = row]
          ELSE /\ approvals' = approvals
               /\ recReq' = [recReq EXCEPT ![c].pc = "done",
                      ![c].resp = [code |-> 500, error |->
                          IF storeOk THEN "DuplicateKey" ELSE "PersistenceError"]]
    /\ UNCHANGED <<nftStore, chainOwner, chainApproved, events, nextTx, chainWrites,
                   auditLog, auditCalls, pullReq, mintReq, erc20Vars,
                   erc20Approvals, erc20RecReq, auxVars>>

\* recordApproval: createAuditLog('approval_recorded', ...) and the success response.
RecordApprovalAudit(c, storeOk) ==
    /\ recReq[c].pc = "audit"
    /\ createAuditLog("approval_recorded", recReq[c].walletAddress, "",
                      recReq[c].txHash, storeOk)
    /\ recReq' = [recReq EXCEPT ![c].pc = "done", ![c].resp = [code |-> 200, error |-> ""]]
    /\ UNCHANGED <<nftStore, chainOwner, chainApproved, events, nextTx, chainWrites,
                   pullReq, mintReq, approvals, erc20Vars, erc20Approvals, erc20RecReq, auxVars>>

\* TOKEN_INFO: the allow-list, keyed by lower-cased address.
TokenInfoSymbol(tokenContractLower) ==
    CASE tokenContractLower = "0xbdead2a7" -> "USDT"
      [] tokenContractLower = "0x94a9d9ac" -> "USDC"
      [] OTHER -> ""

\* The rows ERC20Approval.findOne({txHash, tokenContract}) can return: the
\* matching rows (the first in natural order).
ERC20ApprovalMatches(rows, txHash, tokenContractLower) ==
    {i \in 1..Len(rows) : rows[i].txHash = txHash /\ rows[i].tokenContract = tokenContractLower}

\* Mutant: the index on (txHash, tokenContract) is not unique.
ERC20ApprovalAcceptsDuplicates(rows, row) ==
    row.txHash # ""

\* ERC20Approval schema: txHash is required; the index
\* { txHash: 1, tokenContract: 1 } is unique.
ERC20ApprovalAccepts(rows, row) ==
    /\ row.txHash # ""
    /\ ERC20ApprovalMatches(rows, row.txHash, row.tokenContract) = {}

\* Mutant: the existing row is looked up under the address as sent, not
\* lower-cased.
RecordERC20ApprovalBeginRawAddress(c, walletAddress, operatorAddress, tokenContract, txHash, storeOk) ==
    /\ erc20RecReq[c].pc = "idle"
    /\ \A p \in DOMAIN erc20RecReq : p < c => erc20RecReq[p].pc # "idle"
    /\ LET req == [erc20RecReq[c] EXCEPT !.walletAddress = walletAddress,
                      !.operatorAddress = operatorAddress,
                      !.tokenContract = ToLower(tokenContract), !.txHash = txHash]
           found == ERC20ApprovalMatches(erc20Approvals, txHash, tokenContract)
           first == CHOOSE i \in found : \A j \in found : i <= j
       IN IF walletAddress = "" \/ operatorAddress = "" \/ tokenContract = "" \/ txHash = ""
          THEN erc20RecReq' = [erc20RecReq EXCEPT ![c].pc = "done",
                                  ![c].resp = [code |-> 400, error |-> "MissingField"]]
          ELSE IF TokenInfoSymbol(ToLower(tokenContract)) = ""
          THEN erc20RecReq' = [erc20RecReq EXCEPT ![c] =
                   [req EXCEPT !.pc = "done",
                               !.resp = [code |-> 400, error |-> "UnsupportedToken"]]]
          ELSE IF ~storeOk
          THEN erc20RecReq' = [erc20RecReq EXCEPT ![c] =
                   [req EXCEPT !.pc = "done",
                               !.resp = [code |-> 500, error |-> "PersistenceError"]]]
          ELSE IF found # {}
          THEN erc20RecReq' = [erc20RecReq EXCEPT ![c] =
                   [req EXCEPT !.pc = "done", !.approval = erc20Approvals[first],
                               !.alreadyRecorded = TRUE,
                               !.resp = [code |-> 200, error |-> ""]]]
          ELSE erc20RecReq' = [erc20RecReq EXCEPT ![c] = [req EXCEPT !.pc = "receipt"]]
    /\ UNCHANGED <<nftStore, chainOwner, chainApproved, events, nextTx, chainWrites,
                   auditLog, auditCalls, pullReq, mintReq, approvals, erc20Vars,
                   erc20Approvals, recReq, auxVars>>

\* recordERC20Approval: validation, the allow-list and the findOne of an
\* existing row.
RecordERC20ApprovalBegin(c, walletAddress, operatorAddress, tokenContract, txHash, storeOk) ==
    /\ erc20RecReq[c].pc = "idle"
    /\ \A p \in DOMAIN erc20RecReq : p < c => erc20RecReq[p].pc # "idle"
    /\ LET req == [erc20RecReq[c] EXCEPT !.walletAddress = walletAddress,
                      !.operatorAddress = operatorAddress,
                      !.tokenContract = ToLower(tokenContract), !.txHash = txHash]
           found == ERC20ApprovalMatches(erc20Approvals, txHash, ToLower(tokenContract))
           first == CHOOSE i \in found : \A j \in found : i <= j
       IN IF walletAddress = "" \/ operatorAddress = "" \/ tokenContract = "" \/ txHash = ""
          THEN erc20RecReq' = [erc20RecReq EXCEPT ![c].pc = "done",
                                  ![c].resp = [code |-> 400, error |-> "MissingField"]]
          ELSE IF TokenInfoSymbol(ToLower(tokenContract)) = ""
          THEN erc20RecReq' = [erc20RecReq EXCEPT ![c] =
                   [req EXCEPT !.pc = "done",
                               !.resp = [code |-> 400, error |-> "UnsupportedToken"]]]
          ELSE IF ~storeOk
          THEN erc20RecReq' = [erc20RecReq EXCEPT ![c] =
                   [req EXCEPT !.pc = "done",
                               !.resp = [code |-> 500, error |-> "PersistenceError"]]]
          ELSE IF found # {}
          THEN erc20RecReq' = [erc20RecReq EXCEPT ![c] =
                   [req EXCEPT !.pc = "done", !.approval = erc20Approvals[first],
                               !.alreadyRecorded = TRUE,
                               !.resp = [code |-> 200, error |-> ""]]]
          ELSE erc20RecReq' = [erc20RecReq EXCEPT ![c] = [req EXCEPT !.pc = "receipt"]]
    /\ UNCHANGED <<nftStore, chainOwner, chainApproved, events, nextTx, chainWrites,
                   auditLog, auditCalls, pullReq, mintReq, approvals, erc20Vars,
                   erc20Approvals, recReq, auxVars>>

\* recordERC20Approval: getTransactionReceipt(txHash).
RecordERC20ApprovalReceipt(c, rpcOk) ==
    /\ erc20RecReq[c].pc = "receipt"
    /\ IF rpcOk /\ HasReceipt(erc20RecReq[c].txHash)
       THEN erc20RecReq' = [erc20RecReq EXCEPT ![c].pc = "create",
                                               ![c].receiptLookups = @ + 1]
       ELSE erc20RecReq' = [erc20RecReq EXCEPT ![c].pc = "done",
               ![c].receiptLookups = @ + 1,
               ![c].resp = [code |-> 400, error |-> "TransactionNotFound"]]
    /\ UNCHANGED <<nftStore, chainOwner, chainApproved, events, nextTx, chainWrites,
                   auditLog, auditCalls, pullReq, mintReq, approvals, erc20Vars,
                   erc20Approvals, recReq, auxVars>>

\* recordERC20Approval: ERC20Approval.create({..., isApproved: true}); a
\* rejected insert throws into the catch block, which answers 500.
RecordERC20ApprovalCreate(c, storeOk) ==
    /\ erc20RecReq[c].pc = "create"
    /\ LET row == [walletAddress |-> ToLower(erc20RecReq[c].walletAddress),
                   operatorAddress |-> ToLower(erc20RecReq[c].operatorAddress),
                   tokenContract |-> erc20RecReq[c].tokenContract,
                   tokenSymbol |-> TokenInfoSymbol(erc20RecReq[c].tokenContract),
                   isApproved |-> TRUE, txHash |-> erc20RecReq[c].txHash]
       IN IF storeOk /\ ERC20ApprovalAccepts(erc20Approvals, row)
          THEN /\ erc20Approvals' = Append(erc20Approvals, row)
               /\ erc20RecReq' = [erc20RecReq EXCEPT ![c].pc = "audit", ![c].approval = row]
          ELSE /\ erc20Approvals' = erc20Approvals
               /\ erc20RecReq' = [erc20RecReq EXCEPT ![c].pc = "done",
                      ![c].resp = [code |-> 500, error |->
                          IF storeOk THEN "DuplicateKey" ELSE "PersistenceError"]]
    /\ UNCHANGED <<nftStore, chainOwner, chainApproved, events, nextTx, chainWrites,
                   auditLog, auditCalls, pullReq, mintReq, approvals, erc20Vars, recReq, auxVars>>

\* recordERC20Approval: createAuditLog('erc20_approval_recorded', ...) and the
\* success response.
RecordERC20ApprovalAudit(c, storeOk) ==
    /\ erc20RecReq[c].pc = "audit"
    /\ createAuditLog("erc20_approval_recorded", erc20RecReq[c].walletAddress, "",
                      erc20RecReq[c].txHash, storeOk)
    /\ erc20RecReq' = [erc20RecReq EXCEPT ![c].pc = "done",
                                           ![c].resp = [code |-> 200, error |-> ""]]
    /\ UNCHANGED <<nftStore, chainOwner, chainApproved, events, nextTx, chainWrites,
                   pullReq, mintReq, approvals, erc20Vars, erc20Approvals, recReq, auxVars>>

-----------------------------------------------------------------------------
(* getApprovalStatus: GET /api/approvals/:wallet *)

IdleStatus == [pc |-> "idle", wallet |-> "", operator |-> "", approvals |-> {},
               currentStatus |-> "null", resp |-> NoResp]

\* Mutant: a failed Approval.find is not answered.
GetApprovalStatusFindEscapes(wallet, operator, storeOk) ==
    /\ statusReq.pc = "idle"
    /\ LET req == [statusReq EXCEPT !.wallet = wallet, !.operator = operator]
           query == {i \in 1..Len(approvals) :
                       /\ approvals[i].walletAddress = ToLower(wallet)
                       /\ operator # "" =>
                             approvals[i].operatorAddress = ToLower(operator)}
       IN statusReq' =
            IF wallet = ""
            THEN [statusReq EXCEPT !.pc = "done",
                                   !.resp = [code |-> 400, error |-> "MissingField"]]
            ELSE IF ~storeOk
            THEN [req EXCEPT !.pc = "escaped"]
            ELSE IF operator = ""
            THEN [req EXCEPT !.pc = "done", !.approvals = {approvals[i] : i \in query},
                             !.resp = [code |-> 200, error |-> ""]]
            ELSE [req EXCEPT !.pc = "checkApproval",
                             !.approvals = {approvals[i] : i \in query}]
    /\ UNCHANGED <<nftStore, chainOwner, chainApproved, events, nextTx, chainWrites,
                   auditLog, auditCalls, pullReq, mintReq, approvals,
                   erc20Vars, ledgerVars, monitorVars, sweep, cmp, view, usdcAllowance, upserts, lateVars>>

\* Validation of :wallet and Approval.find(query); a failed query throws into
\* the catch block, which answers 500. Without an operator the response
\* follows with currentStatus null. The rows found are kept as a set.
GetApprovalStatusFind(wallet, operator, storeOk) ==
    /\ statusReq.pc = "idle"
    /\ LET req == [statusReq EXCEPT !.wallet = wallet, !.operator = operator]
           query == {i \in 1..Len(approvals) :
                       /\ approvals[i].walletAddress = ToLower(wallet)
                       /\ operator # "" =>
                             approvals[i].operatorAddress = ToLower(operator)}
       IN statusReq' =
            IF wallet = ""
            THEN [statusReq EXCEPT !.pc = "done",
                                   !.resp = [code |-> 400, error |-> "MissingField"]]
            ELSE IF ~storeOk
            THEN [req EXCEPT !.pc = "done",
                             !.resp = [code |-> 500, error |-> "PersistenceError"]]
            ELSE IF operator = ""
            THEN [req EXCEPT !.pc = "done", !.approvals = {approvals[i] : i \in query},
                             !.resp = [code |-> 200, error |-> ""]]
            ELSE [req EXCEPT !.pc = "checkApproval",
                             !.approvals = {approvals[i] : i \in query}]
    /\ UNCHANGED <<nftStore, chainOwner, chainApproved, events, nextTx, chainWrites,
                   auditLog, auditCalls, pullReq, mintReq, approvals,
                   erc20Vars, ledgerVars, monitorVars, sweep, cmp, view, usdcAllowance, upserts, lateVars>>

\* blockchainService.checkApproval(wallet, operator) in its own try/catch: a
\* throw leaves currentStatus null; the success response follows.
GetApprovalStatusCheck(rpcOk) ==
    /\ statusReq.pc = "checkApproval"
    /\ statusReq' = [statusReq EXCEPT !.pc = "done",
          !.currentStatus =
              IF ~rpcOk THEN "null"
              ELSE IF <<ToLower(statusReq.wallet), ToLower(statusReq.operator)>>
                         \in chainApproved THEN "true" ELSE "false",
          !.resp = [code |-> 200, error |-> ""]]
    /\ UNCHANGED <<nftStore, chainOwner, chainApproved, events, nextTx, chainWrites,
                   auditLog, auditCalls, pullReq, mintReq, approvals,
                   erc20Vars, ledgerVars, monitorVars, sweep, cmp, view, usdcAllowance, upserts, lateVars>>

-----------------------------------------------------------------------------
(* AuthService: the SIWE nonces and verifySiweMessage *)

MaxClock == 4        \* the clock runs for MaxClock steps of five minutes
MaxNonces == 2       \* nonces generateSiweNonce issues
MaxSiweReqs == 2     \* verifySiweMessage calls followed
MaxNonceAge == 2     \* 10 * 60 * 1000 ms, in steps of five minutes

SiweReqs == 1..MaxSiweReqs

\* The nonces a message can carry: those issued, and one never issued.
NonceInputs == 1..(MaxNonces + 1)

IdleSiwe == [pc |-> "idle", nonce |-> 0, createdAt |-> 0, now |-> 0, resp |-> NoResp]

\* Everything AuthService leaves alone.
notAuthVars == <<nftStore, chainOwner, chainApproved, events, nextTx, chainWrites,
                 auditLog, auditCalls, pullReq, mintReq, approvals, erc20Vars,
                 ledgerVars, monitorVars, sweep, cmp, view, usdcAllowance, statusReq,
                 upserts, uploadVars>>

\* Five minutes pass.
Tick ==
    /\ clock < MaxClock
    /\ clock' = clock + 1
    /\ UNCHANGED <<nonceStore, nextNonce, siweReq, notAuthVars>>

\* generateSiweNonce: generateNonce() returns a nonce not seen before; it is
\* stored with createdAt = new Date().
GenerateSiweNonce ==
    /\ nextNonce <= MaxNonces
    /\ nonceStore' = nonceStore \cup {[nonce |-> nextNonce, createdAt |-> clock]}
    /\ nextNonce' = nextNonce + 1
    /\ UNCHANGED <<clock, siweReq, notAuthVars>>

\* cleanupNonces, called by setInterval every five minutes: the entries
\* older than ten minutes are deleted.
CleanupNonces ==
    /\ nonceStore' = {e \in nonceStore : ~(clock - e.createdAt > MaxNonceAge)}
    /\ UNCHANGED <<clock, nextNonce, siweReq, notAuthVars>>

\* The controller answers 401 with the message of what verifySiweMessage threw.
SiweThrow(v, message) ==
    siweReq' = [siweReq EXCEPT ![v].pc = "done",
                               ![v].resp = [code |-> 401, error |-> message]]

\* Mutant: the age of the nonce is left to cleanupNonces.
VerifySiweBeginTrustsCleanup(v, n) ==
    /\ siweReq[v].pc = "idle"
    /\ \A p \in SiweReqs : p < v => siweReq[p].pc # "idle"
    /\ LET stored == {e \in nonceStore : e.nonce = n}
           storedNonce == CHOOSE e \in stored : TRUE
       IN IF stored = {}
          THEN /\ siweReq' = [siweReq EXCEPT ![v].pc = "done", ![v].nonce = n,
                                 ![v].resp = [code |-> 401,
                                              error |-> "Invalid or expired nonce"]]
               /\ nonceStore' = nonceStore
          ELSE /\ siweReq' = [siweReq EXCEPT ![v].pc = "verify", ![v].nonce = n,
                                 ![v].createdAt = storedNonce.createdAt,
                                 ![v].now = clock]
               /\ nonceStore' = nonceStore
    /\ UNCHANGED <<clock, nextNonce, notAuthVars>>

\* verifySiweMessage up to its first await: nonceStore.get(siweMessage.nonce);
\* a nonce that is not stored throws; a stored nonce older than ten minutes
\* is deleted and throws; otherwise the call awaits siweMessage.verify.
VerifySiweBegin(v, n) ==
    /\ siweReq[v].pc = "idle"
    /\ \A p \in SiweReqs : p < v => siweReq[p].pc # "idle"
    /\ LET stored == {e \in nonceStore : e.nonce = n}
           storedNonce == CHOOSE e \in stored : TRUE
       IN IF stored = {}
          THEN /\ siweReq' = [siweReq EXCEPT ![v].pc = "done", ![v].nonce = n,
                                 ![v].resp = [code |-> 401,
                                              error |-> "Invalid or expired nonce"]]
               /\ nonceStore' = nonceStore
          ELSE IF clock - storedNonce.createdAt > MaxNonceAge
          THEN /\ siweReq' = [siweReq EXCEPT ![v].pc = "done", ![v].nonce = n,
                                 ![v].createdAt = storedNonce.createdAt,
                                 ![v].now = clock,
                                 ![v].resp = [code |-> 401, error |-> "Nonce expired"]]
               /\ nonceStore' = nonceStore \ stored
          ELSE /\ siweReq' = [siweReq EXCEPT ![v].pc = "verify", ![v].nonce = n,
                                 ![v].createdAt = storedNonce.createdAt,
                                 ![v].now = clock]
               /\ nonceStore' = nonceStore
    /\ UNCHANGED <<clock, nextNonce, notAuthVars>>

\* await siweMessage.verify({signature}) has settled: an invalid signature
\* throws; otherwise nonceStore.delete(siweMessage.nonce) and the call goes
\* on to the user's document.
VerifySiweSignature(v, sigOk) ==
    /\ siweReq[v].pc = "verify"
    /\ IF sigOk
       THEN /\ nonceStore' = {e \in nonceStore : e.nonce # siweReq[v].nonce}
            /\ siweReq' = [siweReq EXCEPT ![v].pc = "user"]
       ELSE /\ nonceStore' = nonceStore
            /\ SiweThrow(v, "Invalid signature")
    /\ UNCHANGED <<clock, nextNonce, notAuthVars>>

\* User.findOne, user.save and jwt.sign: the token and the user are returned
\* and the controller answers with them; a store error throws.
VerifySiweUser(v, storeOk) ==
    /\ siweReq[v].pc = "user"
    /\ IF storeOk
       THEN siweReq' = [siweReq EXCEPT ![v].pc = "done",
                                       ![v].resp = [code |-> 200, error |-> ""]]
       ELSE SiweThrow(v, "PersistenceError")
    /\ UNCHANGED <<clock, nonceStore, nextNonce, notAuthVars>>

-----------------------------------------------------------------------------
(* uploadDocument: POST /api/upload, with its background upload *)

IdleUpload == [pc |-> "idle", bg |-> "none", tokenId |-> "", recipientAddress |-> "",
               cid |-> "", resp |-> NoResp]

\* `temp_${tokenId}`
PlaceholderCID(t) == "temp_" \o t

\* The content id ipfsService.pinFile resolves with.
ContentCID(t) == "Qm" \o t

\* Everything uploadDocument leaves alone.
notUploadVars == <<chainOwner, chainApproved, events, nextTx, chainWrites,
                   auditLog, auditCalls, pullReq, mintReq, approvals, erc20Vars,
                   ledgerVars, monitorVars, sweep, cmp, view, usdcAllowance, statusReq,
                   upserts, authVars>>

\* uploadDocument up to its await: the body and the file are validated, the
\* token id is taken from the clock, ipfsService.pinFile is started and not
\* awaited, and the handler awaits NFT.create.
UploadDocumentBegin(t, recipient, valid) ==
    /\ uploadReq.pc = "idle"
    /\ ~nftStore[t].exists
    /\ uploadReq' =
         IF valid
         THEN [uploadReq EXCEPT !.pc = "create", !.bg = "pinning", !.tokenId = t,
                                !.recipientAddress = recipient]
         ELSE [uploadReq EXCEPT !.pc = "done",
                                !.resp = [code |-> 400, error |-> "MissingField"]]
    /\ UNCHANGED <<nftStore, encryptedCID, notUploadVars>>

\* NFT.create({tokenId, ..., encryptedCID: documentCID, status: 'uploaded'})
\* and the response; a rejected insert throws into the catch block (500).
UploadDocumentCreate(storeOk) ==
    /\ uploadReq.pc = "create"
    /\ LET t == uploadReq.tokenId
       IN IF storeOk
          THEN /\ nftStore' = [nftStore EXCEPT ![t] =
                     [exists |-> TRUE, status |-> "uploaded",
                      recipientAddress |-> ToLower(uploadReq.recipientAddress),
                      investorAddress |-> WalletAddress,
                      mintTxHash |-> "", pullTxHash |-> ""]]
               /\ encryptedCID' = [encryptedCID EXCEPT ![t] = PlaceholderCID(t)]
               /\ uploadReq' = [uploadReq EXCEPT !.pc = "done",
                                   !.resp = [code |-> 200, error |-> ""]]
          ELSE /\ UNCHANGED <<nftStore, encryptedCID>>
               /\ uploadReq' = [uploadReq EXCEPT !.pc = "done",
                                   !.resp = [code |-> 500, error |-> "PersistenceError"]]
    /\ UNCHANGED notUploadVars

\* ipfsService.pinFile settles: with a content id the .then callback goes on
\* to the update; a rejection is logged.
PinFileSettles(ok) ==
    /\ uploadReq.bg = "pinning"
    /\ uploadReq' = IF ok
                    THEN [uploadReq EXCEPT !.bg = "update",
                                           !.cid = ContentCID(uploadReq.tokenId)]
                    ELSE [uploadReq EXCEPT !.bg = "failed"]
    /\ UNCHANGED <<nftStore, encryptedCID, notUploadVars>>

\* NFT.findOneAndUpdate({tokenId}, {encryptedCID: cid, ...}) in the .then
\* callback: the document with the token id gets the content id; with no
\* such document the update resolves with null and writes nothing; a store
\* error is logged.
AttachContentCID(storeOk) ==
    /\ uploadReq.bg = "update"
    /\ LET t == uploadReq.tokenId
       IN /\ encryptedCID' = IF storeOk /\ nftStore[t].exists
                             THEN [encryptedCID EXCEPT ![t] = uploadReq.cid]
                             ELSE encryptedCID
          /\ uploadReq' = [uploadReq EXCEPT !.bg = IF storeOk THEN "done" ELSE "failed"]
    /\ UNCHANGED <<nftStore, notUploadVars>>

\* The response has been sent and the background upload is over; the next
\* request comes.
UploadDocumentClose ==
    /\ uploadReq.pc = "done"
    /\ uploadReq.bg \in {"none", "done", "failed"}
    /\ uploadReq' = IdleUpload
    /\ UNCHANGED <<nftStore, encryptedCID, notUploadVars>>

-----------------------------------------------------------------------------
(* The pull engine: uploads, mints, approvals on chain, pulls, event handling *)

\* The four event kinds startMonitoring subscribes to.
EventKinds == {"Transfer", "ApprovalForAll", "TokenPulledBack", "TokenMinted"}

IdleSweep == [pc |-> "idle", queue |-> <<>>, read |-> {}, failed |-> {},
              discrepancies |-> {}]

IdleCmp == [amount |-> <<>>, allowance |-> <<>>, balance |-> <<>>,
            verdict |-> "unchecked"]

IdleView == [pc |-> "idle", operator |-> "", failing |-> {}, nftFailing |-> {},
             usdcFailing |-> {}, recipients |-> {}, order |-> <<>>, total |-> 0,
             resp |-> NoResp]

\* The stores, the chain and the request slots after the server's start, in
\* a world of the given token ids and token holders.
InitWorld(tokens, holders) ==
    /\ nftStore = [t \in tokens |-> NoNft]
    /\ chainOwner = [t \in tokens |-> ""]
    /\ chainApproved = {}
    /\ events = {}
    /\ nextTx = 1
    /\ chainWrites = {}
    /\ auditLog = <<>>
    /\ auditCalls = <<>>
    /\ pullReq = [r \in PullReqs |-> IdlePull]
    /\ mintReq = [m \in MintReqs |-> IdleMint]
    /\ approvals = <<>>
    /\ erc20Balance = [h \in holders |-> 0]
    /\ erc20Allowance = [h \in holders |-> 0]
    /\ usdcAllowance = [h \in holders |-> 0]
    /\ erc20Pullbacks = <<>>
    /\ erc20Req = [q \in ERC20Reqs |-> IdleERC20]
    /\ erc20Approvals = <<>>
    /\ recReq = [c \in RecReqs |-> IdleRec]
    /\ erc20RecReq = [c \in RecReqs |-> IdleRec]
    /\ sweep = IdleSweep
    /\ view = IdleView
    /\ statusReq = IdleStatus
    /\ upserts = {}
    /\ clock = 0
    /\ nonceStore = {}
    /\ nextNonce = 1
    /\ siweReq = [v \in SiweReqs |-> IdleSiwe]
    /\ uploadReq = IdleUpload
    /\ encryptedCID = [t \in tokens |-> ""]

InitStores == InitWorld(Tokens, Holders)

\* The server has started with event monitoring enabled: the stores are
\* empty, startMonitoring has run and its four listeners are registered.
InitServer ==
    /\ InitStores
    /\ isMonitoring = TRUE
    /\ listeners = [k \in EventKinds |-> 1]
    /\ pendingOn = 0
    /\ handlerLog = <<>>

Init == InitServer /\ cmp = IdleCmp

Next ==
    \/ \E t \in Tokens, a \in Holders : UploadDocument(t, a)
    \/ \E a \in Holders, o \in Operators, b \in BOOLEAN : ChainSetApprovalForAll(a, o, b)
    \/ \E r \in PullReqs, t \in Tokens, o \in OperatorInputs, ok \in BOOLEAN :
          PullTokenFind(r, t, o, ok)
    \/ \E r \in PullReqs, ok \in BOOLEAN : PullTokenGetOwner(r, ok)
    \/ \E r \in PullReqs, ok \in BOOLEAN : PullTokenCheckApproval(r, ok)
    \/ \E r \in PullReqs, ok \in BOOLEAN : PullTokenSvcCheck(r, ok)
    \/ \E r \in PullReqs, o \in {"ok", "throw", "lost"} : PullTokenChainWrite(r, o)
    \/ \E r \in PullReqs, ok \in BOOLEAN : PullTokenSave(r, ok)
    \/ \E r \in PullReqs, ok \in BOOLEAN : PullTokenAudit(r, ok)
    \/ \E m \in MintReqs, t \in Tokens \cup {""}, ok \in BOOLEAN : MintDirectFind(m, t, ok)
    \/ \E m \in MintReqs, t \in Tokens, o \in {"ok", "throw", "lost"} :
          MintDirectChainWrite(m, t, o)
    \/ \E m \in MintReqs, ok \in BOOLEAN : MintDirectSave(m, ok)
    \/ \E m \in MintReqs, ok \in BOOLEAN : MintDirectAudit(m, ok)
    \/ \E e \in events : handleTransferEvent(e)
    \/ \E e \in events, ok \in BOOLEAN : handleApprovalForAllEvent(e, ok)
    \/ \E e \in events, ok \in BOOLEAN : handleTokenPulledBackEvent(e, ok)
    \/ \E e \in events, ok \in BOOLEAN : handleTokenMintedEvent(e, ok)

Spec == Init /\ [][Next]_vars

-----------------------------------------------------------------------------
(* The event monitor: startMonitoring, stopMonitoring, the ApprovalForAll
   listener *)

MaxListeners == 2   \* registrations per event kind the model follows

\* The order in which startMonitoring subscribes.
KindOrder == <<"Transfer", "ApprovalForAll", "TokenPulledBack", "TokenMinted">>

\* The EventMonitorService after its constructor: not monitoring, no listener.
InitMonitor ==
    /\ InitStores
    /\ cmp = IdleCmp
    /\ isMonitoring = FALSE
    /\ listeners = [k \in EventKinds |-> 0]
    /\ pendingOn = 0
    /\ handlerLog = <<>>

\* startMonitoring. A call while monitoring returns at once. Otherwise the
\* flag is set and contract.on is called for the four kinds in order, none of
\* the calls awaited. outcome "registered": the four listeners are in place
\* when the call returns. outcome "inflight": contract.on returns a promise
\* and the four listeners are in place only when it settles. outcome "throw":
\* the call for the kind at position failAt throws; the kinds before it are
\* subscribed, and the catch block clears the flag and rethrows.
StartMonitoring(outcome, failAt) ==
    /\ \A k \in EventKinds : listeners[k] + pendingOn < MaxListeners
    /\ IF isMonitoring
       THEN UNCHANGED <<isMonitoring, listeners, pendingOn, lateVars>>
       ELSE CASE outcome = "registered" ->
                   /\ isMonitoring' = TRUE
                   /\ listeners' = [k \in EventKinds |-> listeners[k] + 1]
                   /\ UNCHANGED pendingOn
              [] outcome = "inflight" ->
                   /\ isMonitoring' = TRUE
                   /\ pendingOn' = pendingOn + 1
                   /\ UNCHANGED listeners
              [] outcome = "throw" ->
                   /\ isMonitoring' = FALSE
                   /\ listeners' = [k \in EventKinds |->
                          IF \E i \in 1..(failAt - 1) : KindOrder[i] = k
                          THEN listeners[k] + 1 ELSE listeners[k]]
                   /\ UNCHANGED pendingOn
    /\ UNCHANGED <<nftStore, chainOwner, chainApproved, events, nextTx, chainWrites,
                   auditLog, auditCalls, pullReq, mintReq, approvals,
                   erc20Vars, ledgerVars, handlerLog, sweep, cmp, view, usdcAllowance, statusReq, upserts, lateVars>>

\* The promises of one startMonitoring call's contract.on calls settle: its
\* four listeners are in place.
ListenersRegistered ==
    /\ pendingOn > 0
    /\ pendingOn' = pendingOn - 1
    /\ listeners' = [k \in EventKinds |-> listeners[k] + 1]
    /\ UNCHANGED <<nftStore, chainOwner, chainApproved, events, nextTx, chainWrites,
                   auditLog, auditCalls, pullReq, mintReq, approvals,
                   erc20Vars, ledgerVars, isMonitoring, handlerLog, sweep, cmp, view, usdcAllowance, statusReq, upserts, lateVars>>

\* stopMonitoring: returns at once when not monitoring; otherwise
\* contract.removeAllListeners() removes the listeners in place and the flag
\* is cleared.
StopMonitoring ==
    /\ IF isMonitoring
       THEN /\ listeners' = [k \in EventKinds |-> 0]
            /\ isMonitoring' = FALSE
       ELSE UNCHANGED <<listeners, isMonitoring, lateVars>>
    /\ UNCHANGED <<nftStore, chainOwner, chainApproved, events, nextTx, chainWrites,
                   auditLog, auditCalls, pullReq, mintReq, approvals,
                   erc20Vars, ledgerVars, pendingOn, handlerLog, sweep, cmp, view, usdcAllowance, statusReq, upserts, lateVars>>

\* A holder's setApprovalForAll is mined. The ApprovalForAll listener, when
\* one is in place, is called with the event; with no listener the event is
\* not seen.
ApprovalForAllEmitted(owner, operator, approved) ==
    /\ nextTx <= MaxTx
    /\ (<<owner, operator>> \in chainApproved) # approved
    /\ chainApproved' = IF approved THEN chainApproved \cup {<<owner, operator>>}
                                    ELSE chainApproved \ {<<owner, operator>>}
    /\ events' = IF listeners["ApprovalForAll"] > 0
                 THEN events \cup
                        {[NoEvent EXCEPT !.kind = "ApprovalForAll", !.from = owner,
                            !.operator = operator, !.approved = approved,
                            !.txHash = TxHash(nextTx)]}
                 ELSE events
    /\ nextTx' = nextTx + 1
    /\ UNCHANGED <<nftStore, chainOwner, chainWrites, auditLog, auditCalls, pullReq, mintReq,
                   approvals, erc20Vars, ledgerVars, auxVars>>

\* Mutant: an error in the handler escapes the listener and ends monitoring.
ApprovalForAllListenerEscapes(e, storeOk) ==
    /\ e \in events /\ e.kind = "ApprovalForAll"
    /\ events' = events \ {e}
    /\ approvals' = IF storeOk
                    THEN UpsertApproval(approvals,
                           [walletAddress |-> ToLower(e.from),
                            operatorAddress |-> ToLower(e.operator),
                            isApproved |-> e.approved, txHash |-> e.txHash])
                    ELSE approvals
    /\ handlerLog' = Append(handlerLog,
                        [txHash |-> e.txHash,
                         outcome |-> IF storeOk THEN "recorded" ELSE "error"])
    /\ isMonitoring' = (isMonitoring /\ storeOk)
    /\ listeners' = IF storeOk THEN listeners ELSE [k \in EventKinds |-> 0]
    /\ UNCHANGED <<nftStore, chainOwner, chainApproved, nextTx, chainWrites,
                   auditLog, auditCalls, pullReq, mintReq,
                   erc20Vars, ledgerVars, pendingOn, sweep, cmp, view, usdcAllowance, statusReq, upserts, lateVars>>

\* The ApprovalForAll listener runs handleApprovalForAllEvent: the upsert, and
\* "Approval recorded" logged; or the upsert throws, and the catch block logs
\* the error and returns.
ApprovalForAllListener(e, storeOk) ==
    /\ e \in events /\ e.kind = "ApprovalForAll"
    /\ events' = events \ {e}
    /\ approvals' = IF storeOk
                    THEN UpsertApproval(approvals,
                           [walletAddress |-> ToLower(e.from),
                            operatorAddress |-> ToLower(e.operator),
                            isApproved |-> e.approved, txHash |-> e.txHash])
                    ELSE approvals
    /\ handlerLog' = Append(handlerLog,
                        [txHash |-> e.txHash,
                         outcome |-> IF storeOk THEN "recorded" ELSE "error"])
    /\ UNCHANGED <<nftStore, chainOwner, chainApproved, nextTx, chainWrites,
                   auditLog, auditCalls, pullReq, mintReq,
                   erc20Vars, ledgerVars, isMonitoring, listeners, pendingOn,
                   sweep, cmp, view, usdcAllowance, statusReq, upserts, lateVars>>

NextMonitor ==
    \/ \E o \in {"registered", "inflight", "throw"}, i \in 1..Len(KindOrder) :
          StartMonitoring(o, i)
    \/ ListenersRegistered
    \/ StopMonitoring
    \/ \E a \in Holders, o \in Operators, b \in BOOLEAN : ApprovalForAllEmitted(a, o, b)
    \/ \E e \in events, ok \in BOOLEAN : ApprovalForAllListener(e, ok)

SpecMonitor == InitMonitor /\ [][NextMonitor]_vars

-----------------------------------------------------------------------------
(* reconcileData: the sweep over the minted and redeemed records *)

SweepTokens == {"1", "2", "3"}     \* the token ids of the sweep's world
Receivers == {"0xbb"}         \* accounts a holder transfers a token to

\* The address as contract.ownerOf returns it: in checksum case.
ChecksumAddress(a) ==
    CASE a = "0xaa" -> "0xAA"
      [] a = "0xop" -> "0xOP"
      [] a = "0xbb" -> "0xBB"
      [] OTHER -> a

\* The server as InitServer has it, with room for the records of SweepTokens.
InitSweep ==
    /\ InitWorld(SweepTokens, Holders)
    /\ isMonitoring = TRUE
    /\ listeners = [k \in EventKinds |-> 1]
    /\ pendingOn = 0
    /\ handlerLog = <<>>
    /\ cmp = IdleCmp

\* The response of a mintDirect request has been sent; the next request comes.
MintDirectClose(m) ==
    /\ mintReq[m].pc = "done"
    /\ mintReq' = [mintReq EXCEPT ![m] = IdleMint]
    /\ UNCHANGED <<nftStore, chainOwner, chainApproved, events, nextTx, chainWrites,
                   auditLog, auditCalls, pullReq, approvals,
                   erc20Vars, ledgerVars, auxVars>>

\* The holder of a token transfers it on chain (transferFrom): the contract
\* emits Transfer.
ChainTransferFrom(t, to) ==
    /\ nextTx <= MaxTx
    /\ chainOwner[t] \in Holders
    /\ chainOwner' = [chainOwner EXCEPT ![t] = to]
    /\ events' = events \cup
           {[NoEvent EXCEPT !.kind = "Transfer", !.from = chainOwner[t], !.to = to,
               !.tokenId = t, !.txHash = TxHash(nextTx)]}
    /\ nextTx' = nextTx + 1
    /\ UNCHANGED <<nftStore, chainApproved, chainWrites, auditLog, auditCalls,
                   pullReq, mintReq, approvals, erc20Vars, ledgerVars, auxVars>>

\* The orders in which a query without a sort returns the records of S.
Orderings(S) ==
    {q \in [1..Cardinality(S) -> S] :
        \A i, j \in 1..Cardinality(S) : q[i] = q[j] => i = j}

\* reconcileData up to the loop: NFT.find({status: {$in: ['minted',
\* 'redeemed']}}) loads the documents; when it throws, the outer catch logs
\* and the sweep is over.
ReconcileFind(storeOk, order) ==
    /\ sweep.pc # "running"
    /\ order \in Orderings({t \in DOMAIN nftStore :
                               /\ nftStore[t].exists
                               /\ nftStore[t].status \in {"minted", "redeemed"}})
    /\ sweep' = IF storeOk
                THEN [pc |-> IF order = <<>> THEN "done" ELSE "running",
                      queue |-> [i \in 1..Len(order) |->
                                   [tokenId |-> order[i],
                                    recipientAddress |-> nftStore[order[i]].recipientAddress]],
                      read |-> {}, failed |-> {}, discrepancies |-> {}]
                ELSE [IdleSweep EXCEPT !.pc = "error"]
    /\ UNCHANGED <<nftStore, chainOwner, chainApproved, events, nextTx, chainWrites,
                   auditLog, auditCalls, pullReq, mintReq, approvals,
                   erc20Vars, ledgerVars, monitorVars, cmp, view, usdcAllowance, statusReq, upserts, lateVars>>

\* Mutant: the sweep compares the owner and the recipient as they are.
ReconcileOwnerCaseSensitive(rpcOk) ==
    /\ sweep.pc = "running"
    /\ LET nft == Head(sweep.queue)
           rest == Tail(sweep.queue)
           pc == IF rest = <<>> THEN "done" ELSE "running"
       IN IF rpcOk /\ chainOwner[nft.tokenId] # "" THEN
              LET owner == ChecksumAddress(chainOwner[nft.tokenId])
              IN sweep' = [sweep EXCEPT
                     !.pc = pc, !.queue = rest,
                     !.read = @ \cup {[tokenId |-> nft.tokenId, owner |-> owner]},
                     !.discrepancies =
                         IF owner # nft.recipientAddress
                         THEN @ \cup {nft.tokenId} ELSE @]
          ELSE sweep' = [sweep EXCEPT !.pc = pc, !.queue = rest,
                                      !.failed = @ \cup {nft.tokenId}]
    /\ UNCHANGED <<nftStore, chainOwner, chainApproved, events, nextTx, chainWrites,
                   auditLog, auditCalls, pullReq, mintReq, approvals,
                   erc20Vars, ledgerVars, monitorVars, cmp, view, usdcAllowance, statusReq, upserts, lateVars>>

\* Mutant: the sweep corrects the record it finds a discrepancy for.
ReconcileOwnerCorrects(rpcOk) ==
    /\ sweep.pc = "running"
    /\ LET nft == Head(sweep.queue)
           rest == Tail(sweep.queue)
           pc == IF rest = <<>> THEN "done" ELSE "running"
           differs == /\ rpcOk /\ chainOwner[nft.tokenId] # ""
                      /\ ToLower(ChecksumAddress(chainOwner[nft.tokenId]))
                            # ToLower(nft.recipientAddress)
       IN /\ IF rpcOk /\ chainOwner[nft.tokenId] # "" THEN
                 LET owner == ChecksumAddress(chainOwner[nft.tokenId])
                 IN sweep' = [sweep EXCEPT
                        !.pc = pc, !.queue = rest,
                        !.read = @ \cup {[tokenId |-> nft.tokenId, owner |-> owner]},
                        !.discrepancies =
                            IF differs THEN @ \cup {nft.tokenId} ELSE @]
             ELSE sweep' = [sweep EXCEPT !.pc = pc, !.queue = rest,
                                         !.failed = @ \cup {nft.tokenId}]
          /\ nftStore' = IF differs
                         THEN [nftStore EXCEPT ![nft.tokenId].recipientAddress =
                                  ToLower(ChecksumAddress(chainOwner[nft.tokenId]))]
                         ELSE nftStore
    /\ UNCHANGED <<chainOwner, chainApproved, events, nextTx, chainWrites,
                   auditLog, auditCalls, pullReq, mintReq, approvals,
                   erc20Vars, ledgerVars, monitorVars, cmp, view, usdcAllowance, statusReq, upserts, lateVars>>

\* One turn of the loop: getTokenOwner for the next document; the owner is
\* compared with the document's recipientAddress, both in lower case, and a
\* discrepancy is logged when they differ; a read that throws is logged as
\* "not yet minted on-chain" and the loop goes on. After the last document
\* the sweep logs its completion.
ReconcileOwner(rpcOk) ==
    /\ sweep.pc = "running"
    /\ LET nft == Head(sweep.queue)
           rest == Tail(sweep.queue)
           pc == IF rest = <<>> THEN "done" ELSE "running"
       IN IF rpcOk /\ chainOwner[nft.tokenId] # "" THEN
              LET owner == ChecksumAddress(chainOwner[nft.tokenId])
              IN sweep' = [sweep EXCEPT
                     !.pc = pc, !.queue = rest,
                     !.read = @ \cup {[tokenId |-> nft.tokenId, owner |-> owner]},
                     !.discrepancies =
                         IF ToLower(owner) # ToLower(nft.recipientAddress)
                         THEN @ \cup {nft.tokenId} ELSE @]
          ELSE sweep' = [sweep EXCEPT !.pc = pc, !.queue = rest,
                                      !.failed = @ \cup {nft.tokenId}]
    /\ UNCHANGED <<nftStore, chainOwner, chainApproved, events, nextTx, chainWrites,
                   auditLog, auditCalls, pullReq, mintReq, approvals,
                   erc20Vars, ledgerVars, monitorVars, cmp, view, usdcAllowance, statusReq, upserts, lateVars>>

NextSweep ==
    \/ \E t \in SweepTokens, a \in Holders : UploadDocument(t, a)
    \/ \E m \in MintReqs, t \in SweepTokens, ok \in BOOLEAN : MintDirectFind(m, t, ok)
    \/ \E m \in MintReqs, o \in {"ok", "throw", "lost"} :
          MintDirectChainWrite(m, mintReq[m].tokenId, o)
    \/ \E m \in MintReqs, ok \in BOOLEAN : MintDirectSave(m, ok)
    \/ \E m \in MintReqs, ok \in BOOLEAN : MintDirectAudit(m, ok)
    \/ \E m \in MintReqs : MintDirectClose(m)
    \/ \E t \in SweepTokens, to \in Receivers : ChainTransferFrom(t, to)
    \/ \E ok \in BOOLEAN, order \in UNION {Orderings(S) : S \in SUBSET SweepTokens} :
          ReconcileFind(ok, order)
    \/ \E ok \in BOOLEAN : ReconcileOwner(ok)

SpecSweep == InitSweep /\ [][NextSweep]_vars

\* The loop of reconcileData awaits one read after another, and every read
\* returns or throws: a sweep that is running takes its next turn.
SpecSweepFair == SpecSweep /\ WF_vars(\E ok \in BOOLEAN : ReconcileOwner(ok))

-----------------------------------------------------------------------------
(* getConnectedRecipients: GET /api/approvals/connected-recipients *)

ViewTokens == {"1", "2"}
ViewHolders == {"0xaa", "0xbb"}
ContractAddress == "0xc0"          \* process.env.CONTRACT_ADDRESS
UsdtAddress == "0xbdead2a7"        \* USDT_ADDRESS.toLowerCase()
UsdcAddress == "0x94a9d9ac"        \* USDC_ADDRESS.toLowerCase()

InitView ==
    /\ InitWorld(ViewTokens, ViewHolders)
    /\ isMonitoring = TRUE
    /\ listeners = [k \in EventKinds |-> 1]
    /\ pendingOn = 0
    /\ handlerLog = <<>>
    /\ cmp = IdleCmp

\* ERC20Approval.find({operatorAddress, isApproved: true}).
StoredERC20Approvals(operatorAddress) ==
    {i \in 1..Len(erc20Approvals) :
        /\ erc20Approvals[i].operatorAddress = operatorAddress
        /\ erc20Approvals[i].isApproved}

\* The union of the wallets of the stored approvals and the recipients of
\* the NFT records whose investorAddress is the operator.
UniqueRecipients(operatorAddress) ==
    {ToLower(erc20Approvals[i].walletAddress) : i \in StoredERC20Approvals(operatorAddress)}
      \cup {ToLower(nftStore[t].recipientAddress) :
               t \in {u \in DOMAIN nftStore : /\ nftStore[u].exists
                                              /\ nftStore[u].investorAddress = operatorAddress}}

\* recipientApprovals.find(a => a.tokenContract.toLowerCase() === token).
HasStoredApproval(operatorAddress, recipientAddress, token) ==
    \E i \in StoredERC20Approvals(operatorAddress) :
        /\ ToLower(erc20Approvals[i].walletAddress) = recipientAddress
        /\ ToLower(erc20Approvals[i].tokenContract) = token

\* recipientApprovals.find(...): the first row, in the order of the query's
\* result, of the recipient for the token, or undefined (0). The query has no
\* sort: its result is in the order of the rows' insertion.
StoredApproval(operatorAddress, recipientAddress, token) ==
    LET own == {i \in StoredERC20Approvals(operatorAddress) :
                   /\ ToLower(erc20Approvals[i].walletAddress) = recipientAddress
                   /\ ToLower(erc20Approvals[i].tokenContract) = token}
    IN IF own = {} THEN 0 ELSE CHOOSE i \in own : \A j \in own : i <= j

\* storedApproval?.txHash || null (""), and storedApproval?.timestamp || null
\* (0): a row's timestamp is new Date() at its creation, the rank of the row.
StoredTxHash(row) == IF row = 0 THEN "" ELSE erc20Approvals[row].txHash

\* The holder's approve transaction on the USDC token sets the allowance
\* given to the contract.
ChainSetUsdcAllowance(h, v) ==
    /\ nextTx <= MaxTx
    /\ usdcAllowance[h] # v
    /\ usdcAllowance' = [usdcAllowance EXCEPT ![h] = v]
    /\ nextTx' = nextTx + 1
    /\ UNCHANGED <<nftStore, chainOwner, chainApproved, events, chainWrites,
                   auditLog, auditCalls, pullReq, mintReq, approvals,
                   erc20Vars, ledgerVars, monitorVars, sweep, cmp, view, statusReq, upserts, lateVars>>

\* Math.min of the timestamps of the recipient's stored approvals, or null
\* (0). A row's timestamp is new Date() at its creation: the rows' timestamps
\* are in the order of the rows.
FirstApprovalAt(operatorAddress, recipientAddress) ==
    LET own == {i \in StoredERC20Approvals(operatorAddress) :
                   ToLower(erc20Approvals[i].walletAddress) = recipientAddress}
    IN IF own = {} THEN 0 ELSE CHOOSE i \in own : \A j \in own : i <= j

\* Mutant: the USDC allowance does not count as an approval.
RecipientSummaryWithoutUsdc(operatorAddress, recipientAddress, usdtThrows, nftThrows, usdcThrows) ==
    LET known == recipientAddress \in DOMAIN erc20Balance
        usdtBalance == IF usdtThrows \/ ~known THEN <<0>>
                       ELSE DecimalString(erc20Balance[recipientAddress])
        usdtAllowance == IF usdtThrows \/ ~known THEN <<0>>
                         ELSE DecimalString(erc20Allowance[recipientAddress])
        usdcBalance == <<0>>
        usdcAllow == IF usdcThrows \/ ~known THEN <<0>>
                     ELSE DecimalString(usdcAllowance[recipientAddress])
        nftApprovalStatus == /\ ~nftThrows
                             /\ <<recipientAddress, ContractAddress>> \in chainApproved
        storedUsdt == HasStoredApproval(operatorAddress, recipientAddress, UsdtAddress)
        storedUsdc == HasStoredApproval(operatorAddress, recipientAddress, UsdcAddress)
        usdtRow == StoredApproval(operatorAddress, recipientAddress, UsdtAddress)
        usdcRow == StoredApproval(operatorAddress, recipientAddress, UsdcAddress)
        hasStoredApproval == storedUsdt \/ storedUsdc
        hasOnChainApproval == \/ BigInt(usdtAllowance) > 0
                              \/ nftApprovalStatus
    IN [walletAddress |-> recipientAddress,
        approvals |-> [nft |-> nftApprovalStatus,
                       usdt |-> [approved |-> storedUsdt \/ BigInt(usdtAllowance) > 0,
                                 allowance |-> usdtAllowance,
                                 txHash |-> StoredTxHash(usdtRow),
                                 approvedAt |-> usdtRow],
                       usdc |-> [approved |-> storedUsdc \/ BigInt(usdcAllow) > 0,
                                 allowance |-> usdcAllow,
                                 txHash |-> StoredTxHash(usdcRow),
                                 approvedAt |-> usdcRow]],
        balances |-> [usdt |-> usdtBalance, usdc |-> usdcBalance],
        nftsReceived |-> {t \in DOMAIN nftStore :
                            /\ nftStore[t].exists
                            /\ nftStore[t].investorAddress = operatorAddress
                            /\ ToLower(nftStore[t].recipientAddress) = recipientAddress},
        firstApprovalAt |-> FirstApprovalAt(operatorAddress, recipientAddress),
        hasAnyApproval |-> hasStoredApproval \/ hasOnChainApproval]

\* The summary of one recipient. The USDT and USDC status reads and the NFT
\* approval read are each in a try/catch that keeps the defaults '0' and
\* false. No holder holds USDC: its balance reads '0'.
RecipientSummary(operatorAddress, recipientAddress, usdtThrows, nftThrows, usdcThrows) ==
    LET known == recipientAddress \in DOMAIN erc20Balance
        usdtBalance == IF usdtThrows \/ ~known THEN <<0>>
                       ELSE DecimalString(erc20Balance[recipientAddress])
        usdtAllowance == IF usdtThrows \/ ~known THEN <<0>>
                         ELSE DecimalString(erc20Allowance[recipientAddress])
        usdcBalance == <<0>>
        usdcAllow == IF usdcThrows \/ ~known THEN <<0>>
                     ELSE DecimalString(usdcAllowance[recipientAddress])
        nftApprovalStatus == /\ ~nftThrows
                             /\ <<recipientAddress, ContractAddress>> \in chainApproved
        storedUsdt == HasStoredApproval(operatorAddress, recipientAddress, UsdtAddress)
        storedUsdc == HasStoredApproval(operatorAddress, recipientAddress, UsdcAddress)
        usdtRow == StoredApproval(operatorAddress, recipientAddress, UsdtAddress)
        usdcRow == StoredApproval(operatorAddress, recipientAddress, UsdcAddress)
        hasStoredApproval == storedUsdt \/ storedUsdc
        hasOnChainApproval == \/ BigInt(usdtAllowance) > 0
                              \/ BigInt(usdcAllow) > 0
                              \/ nftApprovalStatus
    IN [walletAddress |-> recipientAddress,
        approvals |-> [nft |-> nftApprovalStatus,
                       usdt |-> [approved |-> storedUsdt \/ BigInt(usdtAllowance) > 0,
                                 allowance |-> usdtAllowance,
                                 txHash |-> StoredTxHash(usdtRow),
                                 approvedAt |-> usdtRow],
                       usdc |-> [approved |-> storedUsdc \/ BigInt(usdcAllow) > 0,
                                 allowance |-> usdcAllow,
                                 txHash |-> StoredTxHash(usdcRow),
                                 approvedAt |-> usdcRow]],
        balances |-> [usdt |-> usdtBalance, usdc |-> usdcBalance],
        nftsReceived |-> {t \in DOMAIN nftStore :
                            /\ nftStore[t].exists
                            /\ nftStore[t].investorAddress = operatorAddress
                            /\ ToLower(nftStore[t].recipientAddress) = recipientAddress},
        firstApprovalAt |-> FirstApprovalAt(operatorAddress, recipientAddress),
        hasAnyApproval |-> hasStoredApproval \/ hasOnChainApproval]

\* [...new Set(q)]: the first occurrence of each element, in order.
RECURSIVE Dedup(_)
Dedup(q) ==
    IF q = <<>> THEN <<>>
    ELSE LET front == Dedup(SubSeq(q, 1, Len(q) - 1))
             last == q[Len(q)]
         IN IF \E i \in 1..Len(front) : front[i] = last THEN front
            ELSE Append(front, last)

\* The token ids in the order of their creation (tokenId is Date.now()).
TokenOrder == <<"1", "2", "3">>

\* uniqueRecipients as the array it is: the wallets of the stored approvals
\* in row order, then the recipients of the operator's NFT records in the
\* order of the records.
UniqueRecipientSeq(operatorAddress) ==
    LET rows == SelectSeq(erc20Approvals,
                    LAMBDA row : row.operatorAddress = operatorAddress /\ row.isApproved)
        tokens == SelectSeq(TokenOrder,
                    LAMBDA t : /\ t \in DOMAIN nftStore
                               /\ nftStore[t].exists
                               /\ nftStore[t].investorAddress = operatorAddress)
    IN Dedup([i \in 1..Len(rows) |-> ToLower(rows[i].walletAddress)]
               \o [i \in 1..Len(tokens) |-> ToLower(nftStore[tokens[i]].recipientAddress)])

\* Mutant: the comparator orders by first-approval timestamp ascending.
CompareFirstApprovalAscending(a, b) ==
    IF a.firstApprovalAt = 0 /\ b.firstApprovalAt = 0 THEN 0
    ELSE IF a.firstApprovalAt = 0 THEN 1
    ELSE IF b.firstApprovalAt = 0 THEN -1
    ELSE a.firstApprovalAt - b.firstApprovalAt

\* The comparator of the final sort: both null 0, a null 1, b null -1,
\* otherwise b's time minus a's.
CompareFirstApproval(a, b) ==
    IF a.firstApprovalAt = 0 /\ b.firstApprovalAt = 0 THEN 0
    ELSE IF a.firstApprovalAt = 0 THEN 1
    ELSE IF b.firstApprovalAt = 0 THEN -1
    ELSE b.firstApprovalAt - a.firstApprovalAt

\* Array.prototype.sort with the comparator: a stable sort.
RECURSIVE InsertStable(_, _)
InsertStable(q, x) ==
    IF q = <<>> THEN <<x>>
    ELSE IF CompareFirstApproval(x, Head(q)) < 0 THEN <<x>> \o q
    ELSE <<Head(q)>> \o InsertStable(Tail(q), x)

RECURSIVE SortStable(_)
SortStable(q) ==
    IF q = <<>> THEN <<>>
    ELSE InsertStable(SortStable(SubSeq(q, 1, Len(q) - 1)), q[Len(q)])

\* getConnectedRecipients: 400 without an operator; the two queries and the
\* per-recipient history query throw into the catch block, which answers 500;
\* otherwise one summary per unique recipient, of which those with
\* hasAnyApproval are returned, sorted, with their count and the number of
\* unique recipients. usdtFailing, nftFailing and usdcFailing are the
\* recipients for whom the USDT status read, the NFT approval read and the
\* USDC status read throw. The request writes nothing; its reads are taken
\* together. One request is followed.
GetConnectedRecipients(operator, storeOk, usdtFailing, nftFailing, usdcFailing) ==
    /\ view.pc = "idle"
    /\ LET operatorAddress == ToLower(operator)
           unique == UniqueRecipientSeq(operatorAddress)
           connected == [i \in 1..Len(unique) |->
                           RecipientSummary(operatorAddress, unique[i],
                               unique[i] \in usdtFailing, unique[i] \in nftFailing,
                               unique[i] \in usdcFailing)]
           approved == SortStable(SelectSeq(connected, LAMBDA r : r.hasAnyApproval))
       IN view' =
            IF operator = ""
            THEN [IdleView EXCEPT !.pc = "done",
                                  !.resp = [code |-> 400, error |-> "MissingField"]]
            ELSE IF ~storeOk
            THEN [IdleView EXCEPT !.pc = "done", !.operator = operatorAddress,
                                  !.resp = [code |-> 500, error |-> "PersistenceError"]]
            ELSE [pc |-> "done", operator |-> operatorAddress,
                  failing |-> usdtFailing, nftFailing |-> nftFailing,
                  usdcFailing |-> usdcFailing,
                  recipients |-> {approved[i] : i \in 1..Len(approved)},
                  order |-> [i \in 1..Len(approved) |-> approved[i].walletAddress],
                  total |-> Len(unique),
                  resp |-> [code |-> 200, error |-> ""]]
    /\ UNCHANGED <<nftStore, chainOwner, chainApproved, events, nextTx, chainWrites,
                   auditLog, auditCalls, pullReq, mintReq, approvals,
                   erc20Vars, ledgerVars, monitorVars, sweep, cmp, usdcAllowance, statusReq, upserts, lateVars>>

NextView ==
    \/ \E t \in ViewTokens, a \in ViewHolders : UploadDocument(t, a)
    \/ \E h \in ViewHolders, v \in {0, MaxAmount} : ChainSetAllowance(h, v)
    \/ \E h \in ViewHolders : ChainSetBalance(h, MaxAmount)
    \/ \E a \in ViewHolders, b \in BOOLEAN : ChainSetApprovalForAll(a, ContractAddress, b)
    \/ \E ok \in BOOLEAN :
          RecordERC20ApprovalBegin(1, "0xAA", "0xOP", "0xbDeaD2A7", TxHash(1), ok)
    \/ \E ok \in BOOLEAN : RecordERC20ApprovalReceipt(1, ok)
    \/ \E ok \in BOOLEAN : RecordERC20ApprovalCreate(1, ok)
    \/ \E ok \in BOOLEAN : RecordERC20ApprovalAudit(1, ok)
    \/ \E o \in LedgerOperatorInputs, ok \in BOOLEAN,
          uf \in SUBSET ViewHolders, nf \in {{}, ViewHolders} :
          GetConnectedRecipients(o, ok, uf, nf, {})

SpecView == InitView /\ [][NextView]_vars

\* The view over three holders, two of whom report approvals: the reports
\* find the store and the chain available.
ListHolders == {"0xaa", "0xbb", "0xcc"}

InitViewList ==
    /\ InitWorld(ViewTokens, ListHolders)
    /\ isMonitoring = TRUE
    /\ listeners = [k \in EventKinds |-> 1]
    /\ pendingOn = 0
    /\ handlerLog = <<>>
    /\ cmp = IdleCmp

NextViewList ==
    \/ \E t \in ViewTokens, a \in {"0xbb", "0xcc"} : UploadDocument(t, a)
    \/ ChainSetAllowance("0xcc", MaxAmount)
    \/ \E h \in {"0xbb", "0xcc"} : ChainSetUsdcAllowance(h, MaxAmount)
    \/ ChainSetApprovalForAll("0xcc", ContractAddress, TRUE)
    \/ \E c \in RecReqs, p \in {<<"0xAA", "0xbDeaD2A7">>, <<"0xBB", "0x94a9D9AC">>} :
          RecordERC20ApprovalBegin(c, p[1], "0xOP", p[2], TxHash(1), TRUE)
    \/ \E c \in RecReqs : RecordERC20ApprovalReceipt(c, TRUE)
    \/ \E c \in RecReqs : RecordERC20ApprovalCreate(c, TRUE)
    \/ \E c \in RecReqs : RecordERC20ApprovalAudit(c, TRUE)
    \/ \E ok \in BOOLEAN, cf \in {{}, ListHolders} :
          GetConnectedRecipients("0xOP", ok, {}, {}, cf)

SpecViewList == InitViewList /\ [][NextViewList]_vars

\* The view of a holder who approves more than once: each approve
\* transaction of the holder can be reported, for USDT or for USDC.
NextViewHistory ==
    \/ \E h \in ViewHolders, v \in {0, MaxAmount} : ChainSetAllowance(h, v)
    \/ \E c \in RecReqs, tc \in {"0xbDeaD2A7", "0x94a9D9AC"}, n \in 1..MaxTx,
          ok \in BOOLEAN : RecordERC20ApprovalBegin(c, "0xAA", "0xOP", tc, TxHash(n), ok)
    \/ \E c \in RecReqs, ok \in BOOLEAN : RecordERC20ApprovalReceipt(c, ok)
    \/ \E c \in RecReqs, ok \in BOOLEAN : RecordERC20ApprovalCreate(c, ok)
    \/ \E c \in RecReqs, ok \in BOOLEAN : RecordERC20ApprovalAudit(c, ok)
    \/ \E ok \in BOOLEAN : GetConnectedRecipients("0xOP", ok, {}, {}, {})

SpecViewHistory == InitView /\ [][NextViewHistory]_vars

-----------------------------------------------------------------------------
(* The pull engine with requests that follow one another *)

\* The response of a pullToken request has been sent; the next request comes.
PullTokenClose(r) ==
    /\ pullReq[r].pc = "done"
    /\ pullReq' = [pullReq EXCEPT ![r] = IdlePull]
    /\ UNCHANGED <<nftStore, chainOwner, chainApproved, events, nextTx, chainWrites,
                   auditLog, auditCalls, mintReq, approvals,
                   erc20Vars, ledgerVars, auxVars>>

NextRepull ==
    \/ Next
    \/ \E r \in PullReqs : PullTokenClose(r)

SpecRepull == Init /\ [][NextRepull]_vars

-----------------------------------------------------------------------------
(* The ERC-20 pull-back: holders move balance and allowance, requests pull *)

AmountInputs == {<<>>} \cup {DecimalString(n) : n \in 0..MaxAmount}

NextERC20 ==
    \/ \E h \in Holders, v \in 0..MaxAmount : ChainSetAllowance(h, v)
    \/ \E h \in Holders, v \in 0..MaxAmount : ChainSetBalance(h, v)
    \/ \E q \in ERC20Reqs, tc \in {"", "0xbDeaD2A7"}, from \in WalletInputs,
          a \in AmountInputs, o \in LedgerOperatorInputs, ok \in BOOLEAN :
          PullBackERC20Begin(q, tc, from, a, o, ok)
    \/ \E q \in ERC20Reqs, ok \in BOOLEAN : PullBackERC20CheckStatus(q, ok)
    \/ \E q \in ERC20Reqs, ok \in BOOLEAN : PullBackERC20SvcStatus(q, ok)
    \/ \E q \in ERC20Reqs, o \in {"ok", "throw", "lost"} : PullBackERC20ChainWrite(q, o)
    \/ \E q \in ERC20Reqs, ok \in BOOLEAN : PullBackERC20Wait(q, ok)
    \/ \E q \in ERC20Reqs, ok \in BOOLEAN : PullBackERC20Record(q, ok)
    \/ \E q \in ERC20Reqs, ok \in BOOLEAN : PullBackERC20Audit(q, ok)
    \/ \E q \in ERC20Reqs, ok \in BOOLEAN : PullBackERC20Catch(q, ok)
    \/ \E q \in ERC20Reqs, ok \in BOOLEAN : PullBackERC20CatchRecord(q, ok)

SpecERC20 == Init /\ [][NextERC20]_vars

-----------------------------------------------------------------------------
(* The amount preconditions as a function of their operands *)

Pow64 == <<1, 8, 4, 4, 6, 7, 4, 4, 0, 7, 3, 7, 0, 9, 5, 5, 1, 6, 1, 6>>
Pow64Minus1 == <<1, 8, 4, 4, 6, 7, 4, 4, 0, 7, 3, 7, 0, 9, 5, 5, 1, 6, 1, 5>>
Pow53 == <<9, 0, 0, 7, 1, 9, 9, 2, 5, 4, 7, 4, 0, 9, 9, 2>>
Pow53Plus1 == <<9, 0, 0, 7, 1, 9, 9, 2, 5, 4, 7, 4, 0, 9, 9, 3>>

\* What checkERC20Status returns: x.toString() of an integer of the chain.
ChainAmounts == {<<0>>, <<1>>, <<2>>, <<9>>, <<1, 0>>, Pow53, Pow53Plus1,
                 Pow64Minus1, Pow64}

\* What a request sends as amount: digits, possibly with leading zeros.
RequestAmounts == ChainAmounts \cup {<<0, 7>>, <<0, 0>>}

InitCompare ==
    /\ InitServer
    /\ cmp \in [amount : RequestAmounts, allowance : ChainAmounts,
                 balance : ChainAmounts, verdict : {"unchecked"}]

Precheck ==
    /\ cmp.verdict = "unchecked"
    /\ cmp' = [cmp EXCEPT !.verdict = ERC20Precheck(cmp.amount, cmp.allowance, cmp.balance)]
    /\ UNCHANGED <<nftStore, chainOwner, chainApproved, events, nextTx, chainWrites,
                   auditLog, auditCalls, pullReq, mintReq, approvals, erc20Vars,
                   ledgerVars, monitorVars, sweep, view, usdcAllowance, statusReq, upserts, lateVars>>

NextCompare == Precheck

SpecCompare == InitCompare /\ [][NextCompare]_vars

-----------------------------------------------------------------------------
(* The approval ledger: approvals on chain, their events, client reports *)

NextLedger ==
    \/ \E a \in Holders, o \in Operators, b \in BOOLEAN : ChainSetApprovalForAll(a, o, b)
    \/ \E e \in events, ok \in BOOLEAN : handleApprovalForAllEvent(e, ok)
    \/ \E c \in RecReqs, w \in WalletInputs, o \in LedgerOperatorInputs,
          h \in TxHashInputs, ok \in BOOLEAN : RecordApprovalBegin(c, w, o, h, ok)
    \/ \E c \in RecReqs, ok \in BOOLEAN : RecordApprovalCheck(c, ok)
    \/ \E c \in RecReqs, ok \in BOOLEAN : RecordApprovalCreate(c, ok)
    \/ \E c \in RecReqs, ok \in BOOLEAN : RecordApprovalAudit(c, ok)

SpecLedger == Init /\ [][NextLedger]_vars

-----------------------------------------------------------------------------
(* The ERC-20 approval ledger: approve transactions on chain, client reports *)

NextERC20Ledger ==
    \/ \E h \in Holders, v \in 0..MaxAmount : ChainSetAllowance(h, v)
    \/ \E c \in RecReqs, w \in WalletInputs, o \in LedgerOperatorInputs,
          tc \in TokenContractInputs, h \in TxHashInputs, ok \in BOOLEAN :
          RecordERC20ApprovalBegin(c, w, o, tc, h, ok)
    \/ \E c \in RecReqs, ok \in BOOLEAN : RecordERC20ApprovalReceipt(c, ok)
    \/ \E c \in RecReqs, ok \in BOOLEAN : RecordERC20ApprovalCreate(c, ok)
    \/ \E c \in RecReqs, ok \in BOOLEAN : RecordERC20ApprovalAudit(c, ok)

SpecERC20Ledger == Init /\ [][NextERC20Ledger]_vars

-----------------------------------------------------------------------------
(* Pulls of a token that changes hands: the server starts with the record of *)
(* a token minted to 0xaa in an earlier run                                   *)

NewOwners == {"0xbb"}

\* The stores and the chain when the server starts after a run in which
\* token "1" was uploaded for 0xaa and minted.
InitMintedFor(tokens, reqs) ==
    /\ nftStore = [t \in tokens |->
                     IF t = "1"
                     THEN [exists |-> TRUE, status |-> "minted", recipientAddress |-> "0xaa",
                           investorAddress |-> WalletAddress, mintTxHash |-> TxHash(0),
                           pullTxHash |-> ""]
                     ELSE NoNft]
    /\ chainOwner = [t \in tokens |-> IF t = "1" THEN "0xaa" ELSE ""]
    /\ chainApproved = {}
    /\ events = {}
    /\ nextTx = 1
    /\ chainWrites = {}
    /\ auditLog = <<>>
    /\ auditCalls = <<>>
    /\ pullReq = [r \in reqs |-> IdlePull]
    /\ mintReq = [m \in MintReqs |-> IdleMint]
    /\ approvals = <<>>
    /\ erc20Balance = [h \in Holders |-> 0]
    /\ erc20Allowance = [h \in Holders |-> 0]
    /\ usdcAllowance = [h \in Holders |-> 0]
    /\ erc20Pullbacks = <<>>
    /\ erc20Req = [q \in ERC20Reqs |-> IdleERC20]
    /\ erc20Approvals = <<>>
    /\ recReq = [c \in RecReqs |-> IdleRec]
    /\ erc20RecReq = [c \in RecReqs |-> IdleRec]
    /\ sweep = IdleSweep
    /\ view = IdleView
    /\ statusReq = IdleStatus
    /\ upserts = {}
    /\ clock = 0
    /\ nonceStore = {}
    /\ nextNonce = 1
    /\ siweReq = [v \in SiweReqs |-> IdleSiwe]
    /\ uploadReq = IdleUpload
    /\ encryptedCID = [t \in tokens |-> IF t = "1" THEN "Qm1" ELSE ""]
    /\ isMonitoring = TRUE
    /\ listeners = [k \in EventKinds |-> 1]
    /\ pendingOn = 0
    /\ handlerLog = <<>>
    /\ cmp = IdleCmp

InitMinted(tokens) == InitMintedFor(tokens, PullReqs)

InitOwner == InitMinted(Tokens)

NextOwner ==
    \/ \E t \in Tokens, to \in NewOwners : ChainTransferFrom(t, to)
    \/ \E a \in Holders \cup NewOwners, b \in BOOLEAN :
          ChainSetApprovalForAll(a, WalletAddress, b)
    \/ \E r \in PullReqs, t \in Tokens, o \in OperatorInputs, ok \in BOOLEAN :
          PullTokenFind(r, t, o, ok)
    \/ \E r \in PullReqs, ok \in BOOLEAN : PullTokenGetOwner(r, ok)
    \/ \E r \in PullReqs, ok \in BOOLEAN : PullTokenCheckApproval(r, ok)
    \/ \E r \in PullReqs, ok \in BOOLEAN : PullTokenSvcCheck(r, ok)
    \/ \E r \in PullReqs, o \in {"ok", "throw", "lost"} : PullTokenChainWrite(r, o)
    \/ \E r \in PullReqs, ok \in BOOLEAN : PullTokenSave(r, ok)
    \/ \E r \in PullReqs, ok \in BOOLEAN : PullTokenAudit(r, ok)
    \/ \E r \in PullReqs : PullTokenClose(r)

SpecOwner == InitOwner /\ [][NextOwner]_vars

-----------------------------------------------------------------------------
(* The sweep next to the pulls: a token pull and an ERC-20 pull whose writes  *)
(* to the store can fail after the chain write, and the hourly sweep, which   *)
(* finds the store and the chain available                                    *)

NextMirror ==
    \/ ChainSetApprovalForAll("0xaa", WalletAddress, TRUE)
    \/ ChainSetAllowance("0xaa", MaxAmount)
    \/ ChainSetBalance("0xaa", MaxAmount)
    \/ PullTokenFind(1, "1", WalletAddress, TRUE)
    \/ PullTokenGetOwner(1, TRUE)
    \/ PullTokenCheckApproval(1, TRUE)
    \/ PullTokenSvcCheck(1, TRUE)
    \/ \E o \in {"ok", "throw", "lost"} : PullTokenChainWrite(1, o)
    \/ \E ok \in BOOLEAN : PullTokenSave(1, ok)
    \/ \E ok \in BOOLEAN : PullTokenAudit(1, ok)
    \/ PullBackERC20Begin(1, "0xbDeaD2A7", "0xAA", DecimalString(1), "0xOP", TRUE)
    \/ PullBackERC20CheckStatus(1, TRUE)
    \/ PullBackERC20SvcStatus(1, TRUE)
    \/ \E o \in {"ok", "throw", "lost"} : PullBackERC20ChainWrite(1, o)
    \/ \E ok \in BOOLEAN : PullBackERC20Wait(1, ok)
    \/ \E ok \in BOOLEAN : PullBackERC20Record(1, ok)
    \/ \E ok \in BOOLEAN : PullBackERC20Audit(1, ok)
    \/ \E ok \in BOOLEAN : PullBackERC20Catch(1, ok)
    \/ \E ok \in BOOLEAN : PullBackERC20CatchRecord(1, ok)
    \/ \E order \in UNION {Orderings(S) : S \in SUBSET Tokens} : ReconcileFind(TRUE, order)
    \/ ReconcileOwner(TRUE)

SpecMirror == InitOwner /\ [][NextMirror]_vars

\* setInterval calls reconcileData every hour, and the sweep's loop awaits
\* one read after another: a sweep starts again and again, and a running
\* sweep takes its next turn.
SpecMirrorFair ==
    /\ SpecMirror
    /\ WF_vars(\E order \in UNION {Orderings(S) : S \in SUBSET Tokens} :
                  ReconcileFind(TRUE, order))
    /\ WF_vars(ReconcileOwner(TRUE))

-----------------------------------------------------------------------------
(* Sign-in with Ethereum: nonces are issued, time passes, the cleanup timer  *)
(* fires, messages are verified side by side                                 *)

NextAuth ==
    \/ Tick
    \/ GenerateSiweNonce
    \/ CleanupNonces
    \/ \E v \in SiweReqs, n \in NonceInputs : VerifySiweBegin(v, n)
    \/ \E v \in SiweReqs, ok \in BOOLEAN : VerifySiweSignature(v, ok)
    \/ \E v \in SiweReqs, ok \in BOOLEAN : VerifySiweUser(v, ok)

SpecAuth == Init /\ [][NextAuth]_vars

-----------------------------------------------------------------------------
(* Uploads with their background upload, one request after another *)

NextUpload ==
    \/ \E t \in SweepTokens, a \in {"0xAA"}, valid \in BOOLEAN :
          UploadDocumentBegin(t, a, valid)
    \/ \E ok \in BOOLEAN : UploadDocumentCreate(ok)
    \/ \E ok \in BOOLEAN : PinFileSettles(ok)
    \/ \E ok \in BOOLEAN : AttachContentCID(ok)
    \/ UploadDocumentClose

SpecUpload == InitSweep /\ [][NextUpload]_vars

-----------------------------------------------------------------------------
(* Pulls of one token side by side: the operator's requests for token "1",   *)
(* minted to 0xaa, are in flight together                                     *)

MaxRaceReqs == 2     \* pullToken requests in flight together

RaceReqs == 1..MaxRaceReqs

InitRace == InitMintedFor(Tokens, RaceReqs)

NextRace ==
    \/ \E b \in BOOLEAN : ChainSetApprovalForAll("0xaa", WalletAddress, b)
    \/ \E r \in RaceReqs, t \in Tokens, ok \in BOOLEAN :
          PullTokenFind(r, t, WalletAddress, ok)
    \/ \E r \in RaceReqs, ok \in BOOLEAN : PullTokenGetOwner(r, ok)
    \/ \E r \in RaceReqs, ok \in BOOLEAN : PullTokenCheckApproval(r, ok)
    \/ \E r \in RaceReqs, ok \in BOOLEAN : PullTokenSvcCheck(r, ok)
    \/ \E r \in RaceReqs, o \in {"ok", "throw", "lost"} : PullTokenChainWrite(r, o)
    \/ \E r \in RaceReqs, ok \in BOOLEAN : PullTokenSave(r, ok)
    \/ \E r \in RaceReqs, ok \in BOOLEAN : PullTokenAudit(r, ok)

SpecRace == InitRace /\ [][NextRace]_vars

-----------------------------------------------------------------------------
(* mintDirect on records that are already minted or pulled *)

RemintTokens == {"1", "2"}

InitRemint == InitMinted(RemintTokens)

NextRemint ==
    \/ UploadDocument("2", "0xaa")
    \/ ChainSetApprovalForAll("0xaa", WalletAddress, TRUE)
    \/ \E ok \in BOOLEAN : PullTokenFind(1, "1", WalletAddress, ok)
    \/ \E ok \in BOOLEAN : PullTokenGetOwner(1, ok)
    \/ \E ok \in BOOLEAN : PullTokenCheckApproval(1, ok)
    \/ \E ok \in BOOLEAN : PullTokenSvcCheck(1, ok)
    \/ \E o \in {"ok", "throw", "lost"} : PullTokenChainWrite(1, o)
    \/ \E ok \in BOOLEAN : PullTokenSave(1, ok)
    \/ \E ok \in BOOLEAN : PullTokenAudit(1, ok)
    \/ \E m \in MintReqs, t \in RemintTokens, ok \in BOOLEAN : MintDirectFind(m, t, ok)
    \/ \E m \in MintReqs, o \in {"ok", "throw", "lost"} : MintDirectChainWrite(m, "2", o)
    \/ \E m \in MintReqs, ok \in BOOLEAN : MintDirectSave(m, ok)
    \/ \E m \in MintReqs, ok \in BOOLEAN : MintDirectAudit(m, ok)
    \/ \E m \in MintReqs : MintDirectClose(m)

SpecRemint == InitRemint /\ [][NextRemint]_vars

-----------------------------------------------------------------------------
(* The approval ledger written by the event monitor alone: the holder grants  *)
(* and revokes, the handlers of the events run side by side; the store and    *)
(* the chain are available                                                    *)

NextUpsert ==
    \/ \E a \in Holders, o \in Operators, b \in BOOLEAN : ChainSetApprovalForAll(a, o, b)
    \/ \E e \in events : ApprovalForAllGetBlock(e)
    \/ \E h \in upserts : ApprovalForAllFind(h)
    \/ \E h \in upserts : ApprovalForAllInsert(h)

SpecUpsert == Init /\ [][NextUpsert]_vars

-----------------------------------------------------------------------------
(* The two approval reports side by side *)

NextReject ==
    \/ \E b \in BOOLEAN : ChainSetApprovalForAll("0xaa", WalletAddress, b)
    \/ \E c \in RecReqs, w \in WalletInputs, o \in LedgerOperatorInputs,
          h \in {"", TxHash(1), TxHash(2)}, ok \in BOOLEAN :
          RecordApprovalBegin(c, w, o, h, ok)
    \/ \E c \in RecReqs, ok \in BOOLEAN : RecordApprovalCheck(c, ok)
    \/ \E c \in RecReqs, ok \in BOOLEAN : RecordApprovalCreate(c, ok)
    \/ \E c \in RecReqs, ok \in BOOLEAN : RecordApprovalAudit(c, ok)
    \/ \E w \in WalletInputs, o \in LedgerOperatorInputs, tc \in TokenContractInputs,
          h \in {"", TxHash(1), TxHash(2)}, ok \in BOOLEAN :
          RecordERC20ApprovalBegin(1, w, o, tc, h, ok)
    \/ \E ok \in BOOLEAN : RecordERC20ApprovalReceipt(1, ok)
    \/ \E ok \in BOOLEAN : RecordERC20ApprovalCreate(1, ok)
    \/ \E ok \in BOOLEAN : RecordERC20ApprovalAudit(1, ok)

SpecReject == Init /\ [][NextReject]_vars

-----------------------------------------------------------------------------
(* The audit trail: the five audited operations, each run to its audit call  *)
(* with the store and the chain available, the audit write failing or not    *)

NextAudit ==
    \/ UploadDocument("1", "0xaa")
    \/ ChainSetApprovalForAll("0xaa", WalletAddress, TRUE)
    \/ ChainSetAllowance("0xaa", MaxAmount)
    \/ ChainSetBalance("0xaa", MaxAmount)
    \/ MintDirectFind(1, "1", TRUE)
    \/ MintDirectChainWrite(1, "1", "ok")
    \/ MintDirectSave(1, TRUE)
    \/ \E ok \in BOOLEAN : MintDirectAudit(1, ok)
    \/ PullTokenFind(1, "1", WalletAddress, TRUE)
    \/ PullTokenGetOwner(1, TRUE)
    \/ PullTokenCheckApproval(1, TRUE)
    \/ PullTokenSvcCheck(1, TRUE)
    \/ PullTokenChainWrite(1, "ok")
    \/ PullTokenSave(1, TRUE)
    \/ \E ok \in BOOLEAN : PullTokenAudit(1, ok)
    \/ PullBackERC20Begin(1, "0xbDeaD2A7", "0xAA", DecimalString(1), "0xOP", TRUE)
    \/ PullBackERC20CheckStatus(1, TRUE)
    \/ PullBackERC20SvcStatus(1, TRUE)
    \/ PullBackERC20ChainWrite(1, "ok")
    \/ PullBackERC20Wait(1, TRUE)
    \/ PullBackERC20Record(1, TRUE)
    \/ \E ok \in BOOLEAN : PullBackERC20Audit(1, ok)
    \/ RecordApprovalBegin(1, "0xAA", "0xOP", TxHash(1), TRUE)
    \/ RecordApprovalCheck(1, TRUE)
    \/ RecordApprovalCreate(1, TRUE)
    \/ \E ok \in BOOLEAN : RecordApprovalAudit(1, ok)
    \/ RecordERC20ApprovalBegin(1, "0xAA", "0xOP", "0xbDeaD2A7", TxHash(1), TRUE)
    \/ RecordERC20ApprovalReceipt(1, TRUE)
    \/ RecordERC20ApprovalCreate(1, TRUE)
    \/ \E ok \in BOOLEAN : RecordERC20ApprovalAudit(1, ok)

SpecAudit == Init /\ [][NextAudit]_vars

-----------------------------------------------------------------------------------------------------------------------------------------------------
(* The six core operations, one request of one of them in a run, over a      *)
(* world that an upload, a mint and the holder's approvals prepare; every    *)
(* store and chain call of the request may fail. The preparation leaves one  *)
(* of the MaxTx transactions to the request.                                 *)

\* No request of the six operations has been received.
Quiet ==
    /\ \A r \in PullReqs : pullReq[r].pc = "idle"
    /\ \A q \in ERC20Reqs : erc20Req[q].pc = "idle"
    /\ \A c \in RecReqs : recReq[c].pc = "idle"
    /\ \A c \in RecReqs : erc20RecReq[c].pc = "idle"
    /\ statusReq.pc = "idle"
    /\ view.pc = "idle"

NextRespond ==
    \/ UploadDocument("1", "0xaa")
    \/ nextTx < MaxTx /\ ChainSetApprovalForAll("0xaa", WalletAddress, TRUE)
    \/ nextTx < MaxTx /\ ChainSetAllowance("0xaa", MaxAmount)
    \/ ChainSetBalance("0xaa", MaxAmount)
    \/ MintDirectFind(1, "1", TRUE)
    \/ nextTx < MaxTx /\ MintDirectChainWrite(1, "1", "ok")
    \/ MintDirectSave(1, TRUE)
    \/ MintDirectAudit(1, TRUE)
    \/ Quiet /\ \E o \in {"", WalletAddress}, ok \in BOOLEAN : PullTokenFind(1, "1", o, ok)
    \/ \E ok \in BOOLEAN : PullTokenGetOwner(1, ok)
    \/ \E ok \in BOOLEAN : PullTokenCheckApproval(1, ok)
    \/ \E ok \in BOOLEAN : PullTokenSvcCheck(1, ok)
    \/ \E o \in {"ok", "throw", "lost"} : PullTokenChainWrite(1, o)
    \/ \E ok \in BOOLEAN : PullTokenSave(1, ok)
    \/ \E ok \in BOOLEAN : PullTokenAudit(1, ok)
    \/ Quiet /\ \E from \in WalletInputs, ok \in BOOLEAN :
          PullBackERC20Begin(1, "0xbDeaD2A7", from, DecimalString(1), "0xOP", ok)
    \/ \E ok \in BOOLEAN : PullBackERC20CheckStatus(1, ok)
    \/ \E ok \in BOOLEAN : PullBackERC20SvcStatus(1, ok)
    \/ \E o \in {"ok", "throw", "lost"} : PullBackERC20ChainWrite(1, o)
    \/ \E ok \in BOOLEAN : PullBackERC20Wait(1, ok)
    \/ \E ok \in BOOLEAN : PullBackERC20Record(1, ok)
    \/ \E ok \in BOOLEAN : PullBackERC20Audit(1, ok)
    \/ \E ok \in BOOLEAN : PullBackERC20Catch(1, ok)
    \/ \E ok \in BOOLEAN : PullBackERC20CatchRecord(1, ok)
    \/ Quiet /\ \E w \in WalletInputs, ok \in BOOLEAN :
          RecordApprovalBegin(1, w, "0xOP", TxHash(1), ok)
    \/ \E ok \in BOOLEAN : RecordApprovalCheck(1, ok)
    \/ \E ok \in BOOLEAN : RecordApprovalCreate(1, ok)
    \/ \E ok \in BOOLEAN : RecordApprovalAudit(1, ok)
    \/ Quiet /\ \E w \in WalletInputs, ok \in BOOLEAN :
          RecordERC20ApprovalBegin(1, w, "0xOP", "0xbDeaD2A7", TxHash(1), ok)
    \/ \E ok \in BOOLEAN : RecordERC20ApprovalReceipt(1, ok)
    \/ \E ok \in BOOLEAN : RecordERC20ApprovalCreate(1, ok)
    \/ \E ok \in BOOLEAN : RecordERC20ApprovalAudit(1, ok)
    \/ Quiet /\ \E w \in WalletInputs, o \in LedgerOperatorInputs, ok \in BOOLEAN :
          GetApprovalStatusFind(w, o, ok)
    \/ \E ok \in BOOLEAN : GetApprovalStatusCheck(ok)
    \/ Quiet /\ \E o \in LedgerOperatorInputs, ok \in BOOLEAN, uf \in {{}, Holders} :
          GetConnectedRecipients(o, ok, uf, {}, {})

SpecRespond == Init /\ [][NextRespond]_vars

\* A step of a received request: the continuation after an await that settled.
RespondStep ==
    \/ \E ok \in BOOLEAN : PullTokenGetOwner(1, ok)
    \/ \E ok \in BOOLEAN : PullTokenCheckApproval(1, ok)
    \/ \E ok \in BOOLEAN : PullTokenSvcCheck(1, ok)
    \/ \E o \in {"ok", "throw", "lost"} : PullTokenChainWrite(1, o)
    \/ \E ok \in BOOLEAN : PullTokenSave(1, ok)
    \/ \E ok \in BOOLEAN : PullTokenAudit(1, ok)
    \/ \E ok \in BOOLEAN : PullBackERC20CheckStatus(1, ok)
    \/ \E ok \in BOOLEAN : PullBackERC20SvcStatus(1, ok)
    \/ \E o \in {"ok", "throw", "lost"} : PullBackERC20ChainWrite(1, o)
    \/ \E ok \in BOOLEAN : PullBackERC20Wait(1, ok)
    \/ \E ok \in BOOLEAN : PullBackERC20Record(1, ok)
    \/ \E ok \in BOOLEAN : PullBackERC20Audit(1, ok)
    \/ \E ok \in BOOLEAN : PullBackERC20Catch(1, ok)
    \/ \E ok \in BOOLEAN : PullBackERC20CatchRecord(1, ok)
    \/ \E ok \in BOOLEAN : RecordApprovalCheck(1, ok)
    \/ \E ok \in BOOLEAN : RecordApprovalCreate(1, ok)
    \/ \E ok \in BOOLEAN : RecordApprovalAudit(1, ok)
    \/ \E ok \in BOOLEAN : RecordERC20ApprovalReceipt(1, ok)
    \/ \E ok \in BOOLEAN : RecordERC20ApprovalCreate(1, ok)
    \/ \E ok \in BOOLEAN : RecordERC20ApprovalAudit(1, ok)
    \/ \E ok \in BOOLEAN : GetApprovalStatusCheck(ok)

\* Every awaited call settles, with a result or a rejection, and the handler
\* that awaits it then runs on.
SpecRespondFair == SpecRespond /\ WF_vars(RespondStep)

-----------------------------------------------------------------------------
(* Properties of the pull engine (Spec) *)

PullWrites(r) == {w \in chainWrites : w.call = "pullBack" /\ w.req = r}

LiveApproved(r) ==
    <<pullReq[r].currentOwner, ToLower(pullReq[r].operatorAddress)>> \in chainApproved

\* C1: a pullToken request invokes the chain pull-back write only if its own
\* live isApprovedForAll(liveOwner, operatorAddress) read returned true, the
\* value of that read is the chain's at the time of the read, and a read that
\* returned false ends the request with 403 NotApproved, whatever the approval
\* ledger records for the pair.
C1_PullOnlyAfterLiveApproval ==
    /\ [](\A r \in PullReqs :
            /\ PullWrites(r) # {} => pullReq[r].isApproved = "true"
            /\ pullReq[r].isApproved = "false" =>
                  /\ pullReq[r].pc = "done"
                  /\ pullReq[r].resp = [code |-> 403, error |-> "NotApproved"]
                  /\ PullWrites(r) = {})
    /\ [][\A r \in PullReqs :
            (pullReq[r].pc = "checkApproval" /\ pullReq'[r].pc # "checkApproval") =>
                /\ pullReq'[r].isApproved = "true" => LiveApproved(r)
                /\ pullReq'[r].isApproved = "false" => ~LiveApproved(r)]_vars

\* C1 witness: a request was refused with NotApproved while the ledger's row
\* for the owner and the operator says approved.
C1_Witness ==
    \E r \in PullReqs :
        /\ pullReq[r].resp = [code |-> 403, error |-> "NotApproved"]
        /\ \E i \in 1..Len(approvals) :
              /\ approvals[i].walletAddress = pullReq[r].currentOwner
              /\ approvals[i].operatorAddress = ToLower(pullReq[r].operatorAddress)
              /\ approvals[i].isApproved

\* A step of an event handler: it takes an emitted event.
HandlerStep == events' # events /\ events' \subseteq events

\* C3: once a record's stored status is pulled, no handling of a Transfer,
\* ApprovalForAll, TokenPulledBack or TokenMinted event changes the stored
\* status to minted or uploaded.
C3_PulledNotOverwrittenByHandlers ==
    [][\A t \in Tokens :
          (HandlerStep /\ nftStore[t].status = "pulled") =>
              nftStore'[t].status \notin {"minted", "uploaded"}]_vars

\* C3 witness of the divergence: a record that was pulled (it holds a pull
\* transaction hash) is stored as minted again.
C3_Witness ==
    \E t \in Tokens :
        /\ nftStore[t].status = "minted"
        /\ nftStore[t].pullTxHash # ""

\* C4: every step a pullToken request takes up to and including its refusal
\* with NotApproved leaves the NFT records, the pull-back history, the audit
\* log and the chain writes as they were, and a refused request has made no
\* chain write and holds no transaction hash.
C4_NotApprovedHasNoEffect ==
    /\ [](\A r \in PullReqs :
            pullReq[r].resp.error = "NotApproved" =>
                /\ pullReq[r].isApproved = "false"
                /\ pullReq[r].txHash = ""
                /\ \A w \in chainWrites : w.req = r => w.call # "pullBack")
    /\ [][\A r \in PullReqs :
            (/\ pullReq'[r] # pullReq[r]
             /\ pullReq[r].pc \in {"idle", "getOwner", "checkApproval"}) =>
                UNCHANGED <<nftStore, erc20Pullbacks, auditLog, auditCalls, chainWrites>>]_vars

\* C4 witness: a request refused with NotApproved whose record is still minted.
C4_Witness ==
    \E r \in PullReqs :
        /\ pullReq[r].resp.error = "NotApproved"
        /\ nftStore[pullReq[r].tokenId].status = "minted"
        /\ nftStore[pullReq[r].tokenId].pullTxHash = ""
        /\ auditCalls = <<>>

-----------------------------------------------------------------------------
(* Properties of the ERC-20 pull-back (SpecERC20) *)

ERC20Writes(q) == {w \in chainWrites : w.call = "pullBackERC20" /\ w.req = q}

CompletedRows(q) ==
    {i \in 1..Len(erc20Pullbacks) :
        /\ erc20Pullbacks[i].status = "completed"
        /\ erc20Pullbacks[i].txHash = erc20Req[q].txHash}

FailedRows(q) ==
    {i \in 1..Len(erc20Pullbacks) :
        /\ erc20Pullbacks[i].status = "failed"
        /\ erc20Pullbacks[i].txHash = ""
        /\ erc20Pullbacks[i].errorMessage = erc20Req[q].error}

\* C2: when checkERC20Status returns a live allowance strictly below the
\* requested amount, pullBackERC20 answers 400 InsufficientAllowance at that
\* step, and a request answered InsufficientAllowance has invoked the chain
\* write pullBackERC20 zero times.
C2_InsufficientAllowanceNoWrite ==
    /\ [](\A q \in ERC20Reqs :
            erc20Req[q].resp.error = "InsufficientAllowance" => ERC20Writes(q) = {})
    /\ [][\A q \in ERC20Reqs :
            (/\ erc20Req[q].pc = "checkStatus"
             /\ erc20Req'[q].pc \notin {"checkStatus", "catch"}
             /\ BigInt(erc20Req[q].amount) >
                    erc20Allowance[ToLower(erc20Req[q].fromAddress)]) =>
                /\ erc20Req'[q].pc = "done"
                /\ erc20Req'[q].resp = [code |-> 400, error |-> "InsufficientAllowance"]
                /\ chainWrites' = chainWrites]_vars

\* C2 witness: a request for more than the allowance, which the balance
\* covers, was answered InsufficientAllowance.
C2_Witness ==
    \E q \in ERC20Reqs :
        /\ erc20Req[q].resp = [code |-> 400, error |-> "InsufficientAllowance"]
        /\ BigInt(erc20Req[q].amount) > erc20Allowance[ToLower(erc20Req[q].fromAddress)]
        /\ BigInt(erc20Req[q].amount) <= erc20Balance[ToLower(erc20Req[q].fromAddress)]

\* C8 (as stated): every finished pullBackERC20 request whose chain write was
\* submitted and confirmed has exactly one completed history row with its
\* transaction hash, whatever happened in the confirmation wait, the history
\* write and the audit.
C8_ConfirmedWriteAlwaysRecorded ==
    \A q \in ERC20Reqs :
        (erc20Req[q].pc = "done" /\ erc20Req[q].txHash # "") =>
            Cardinality(CompletedRows(q)) = 1

\* C8 (amended): a pullBackERC20 request whose chain write was submitted and
\* confirmed has exactly one completed history row with its transaction hash
\* once its history write has succeeded, and none before that or when the
\* confirmation wait or the history write fails; a finished request without
\* the row has answered 500.
C8_ConfirmedWriteRecordedUnlessLaterStepFails ==
    \A q \in ERC20Reqs :
        erc20Req[q].txHash # "" =>
            /\ Cardinality(CompletedRows(q)) = IF erc20Req[q].recorded = "yes" THEN 1 ELSE 0
            /\ (erc20Req[q].pc = "done" /\ erc20Req[q].recorded # "yes") =>
                   erc20Req[q].resp.code = 500

\* C8 witness: a finished request with a confirmed chain write and its one
\* completed row.
C8_Witness ==
    \E q \in ERC20Reqs :
        /\ erc20Req[q].pc = "done"
        /\ erc20Req[q].txHash # ""
        /\ erc20Req[q].confirmed
        /\ Cardinality(CompletedRows(q)) = 1

\* C9: whenever pullBackERC20 has answered with success, a completed history
\* row with the response's txHash is stored and createAuditLog has been called
\* with action erc20_pulled and that txHash.
C9_SuccessHasRowAndAudit ==
    \A q \in ERC20Reqs :
        erc20Req[q].resp.code = 200 =>
            /\ erc20Req[q].txHash # ""
            /\ CompletedRows(q) # {}
            /\ \E i \in 1..Len(auditCalls) :
                  /\ auditCalls[i].action = "erc20_pulled"
                  /\ auditCalls[i].txHash = erc20Req[q].txHash

\* C9 witness: a success response whose audit entry was emitted but not stored.
C9_Witness ==
    \E q \in ERC20Reqs :
        /\ erc20Req[q].resp.code = 200
        /\ auditCalls # <<>>
        /\ auditLog = <<>>

\* C10: a pullBackERC20 request with tokenContract and fromAddress that threw
\* after validation, and whose failure write found the store available, has
\* left a failed history row with empty txHash and its error message.
C10_FailedAttemptRecorded ==
    \A q \in ERC20Reqs :
        (/\ erc20Req[q].pc = "done"
         /\ erc20Req[q].resp.code = 500
         /\ erc20Req[q].failureStore) =>
            FailedRows(q) # {}

\* C10 witness of the divergence: the chain write of a request failed, the
\* failure write found the store available, and the history holds no row.
C10_Witness ==
    \E q \in ERC20Reqs :
        /\ erc20Req[q].pc = "done"
        /\ erc20Req[q].resp.code = 500
        /\ erc20Req[q].failureStore
        /\ ERC20Writes(q) # {}
        /\ erc20Pullbacks = <<>>

\* The errors thrown inside the try block of pullBackERC20.
ERC20ThrownErrors ==
    {"Failed to get token information", "Failed to check ERC-20 token status",
     "Failed to pull back ERC-20 tokens", "Transaction confirmation failed",
     "PersistenceError"}

\* C11: in the catch block of pullBackERC20 the error that was thrown is kept
\* through the failure write, whatever that write does: the step that ends
\* the block answers 500 with the original error, and a request that has
\* answered takes no further step, so the caller gets one response.
C11_FailureWriteFailureNotPropagated ==
    /\ [](\A q \in ERC20Reqs :
            erc20Req[q].pc \in {"catch", "catchRecord"} =>
                /\ erc20Req[q].error \in ERC20ThrownErrors
                /\ erc20Req[q].resp = NoResp)
    /\ [][\A q \in ERC20Reqs :
            /\ (erc20Req[q].pc \in {"catch", "catchRecord"}
                 /\ erc20Req'[q] # erc20Req[q]) =>
                   /\ erc20Req'[q].error = erc20Req[q].error
                   /\ erc20Req'[q].pc \in {"catchRecord", "done"}
                   /\ erc20Req'[q].pc = "done" =>
                          erc20Req'[q].resp = [code |-> 500, error |-> erc20Req[q].error]
            /\ erc20Req[q].pc = "done" => erc20Req'[q] = erc20Req[q]]_vars

\* C11 witness: the chain write of a request threw, the failure write was
\* attempted with the store unavailable, and the request answered 500 with
\* the chain write's error.
C11_Witness ==
    \E q \in ERC20Reqs :
        /\ erc20Req[q].pc = "done"
        /\ ERC20Writes(q) # {}
        /\ ~erc20Req[q].failureStore
        /\ erc20Pullbacks = <<>>
        /\ erc20Req[q].resp = [code |-> 500, error |-> "Failed to pull back ERC-20 tokens"]

-----------------------------------------------------------------------------
(* Properties of the ERC-20 approval ledger (SpecERC20Ledger) *)

KeyRows(c) ==
    ERC20ApprovalMatches(erc20Approvals, erc20RecReq[c].txHash, erc20RecReq[c].tokenContract)

\* C5: a recordERC20Approval call answered with success has left exactly one
\* row for its (txHash, tokenContract), with isApproved true and the
\* allow-list symbol, and returns that row; the call that stored it made one
\* receipt lookup.  A call that comes after such a call has answered, with
\* the same txHash and the same token, returns the same row with
\* alreadyRecorded true, makes no receipt lookup and leaves the ledger as it
\* was (the store being available).
C5_SecondCallReturnsStoredRow ==
    /\ [](\A c \in RecReqs :
            (erc20RecReq[c].pc = "done" /\ erc20RecReq[c].resp.code = 200) =>
                /\ Cardinality(KeyRows(c)) = 1
                /\ \A i \in KeyRows(c) : erc20Approvals[i] = erc20RecReq[c].approval
                /\ erc20RecReq[c].approval.isApproved
                /\ erc20RecReq[c].approval.tokenSymbol \in {"USDT", "USDC"}
                /\ erc20RecReq[c].approval.tokenSymbol =
                       TokenInfoSymbol(erc20RecReq[c].tokenContract)
                /\ erc20RecReq[c].receiptLookups =
                       IF erc20RecReq[c].alreadyRecorded THEN 0 ELSE 1)
    /\ [][\A c1, c2 \in RecReqs :
            (/\ c1 # c2
             /\ erc20RecReq[c1].pc = "done" /\ erc20RecReq[c1].resp.code = 200
             /\ erc20RecReq[c2].pc = "idle" /\ erc20RecReq'[c2].pc # "idle"
             /\ erc20RecReq'[c2].txHash = erc20RecReq[c1].txHash
             /\ erc20RecReq'[c2].tokenContract = erc20RecReq[c1].tokenContract
             /\ erc20RecReq'[c2].resp.error # "PersistenceError") =>
                /\ erc20RecReq'[c2].pc = "done"
                /\ erc20RecReq'[c2].resp.code = 200
                /\ erc20RecReq'[c2].alreadyRecorded
                /\ erc20RecReq'[c2].approval = erc20RecReq[c1].approval
                /\ erc20RecReq'[c2].receiptLookups = 0
                /\ erc20Approvals' = erc20Approvals]_vars

\* C5 witness: two calls with the same key have answered, the first having
\* stored the row and the second having found it; the ledger holds one row.
C5_Witness ==
    \E c1, c2 \in RecReqs :
        /\ erc20RecReq[c1].resp.code = 200 /\ ~erc20RecReq[c1].alreadyRecorded
        /\ erc20RecReq[c2].resp.code = 200 /\ erc20RecReq[c2].alreadyRecorded
        /\ erc20RecReq[c2].approval = erc20RecReq[c1].approval
        /\ Len(erc20Approvals) = 1

\* C6: in every reachable state the ERC-20 approval ledger holds at most one
\* row per (txHash, tokenContract), also when calls for the same key
\* interleave between the existence check and the insert.
C6_OneRowPerKey ==
    \A i, j \in 1..Len(erc20Approvals) :
        (/\ erc20Approvals[i].txHash = erc20Approvals[j].txHash
         /\ erc20Approvals[i].tokenContract = erc20Approvals[j].tokenContract) => i = j

\* C6 witness: two calls for the same key both passed the existence check;
\* one stored the row and the insert of the other was rejected.
C6_Witness ==
    \E c1, c2 \in RecReqs :
        /\ erc20RecReq[c1].resp.code = 200 /\ ~erc20RecReq[c1].alreadyRecorded
        /\ erc20RecReq[c2].resp = [code |-> 500, error |-> "DuplicateKey"]
        /\ erc20RecReq[c2].txHash = erc20RecReq[c1].txHash
        /\ erc20RecReq[c2].tokenContract = erc20RecReq[c1].tokenContract

-----------------------------------------------------------------------------
(* Properties of the approval ledger (SpecLedger) *)

\* C7: a recordApproval call whose txHash the ledger already held when the
\* call came, and whose chain reads and store did not fail, answers without
\* an error and returns the record with that txHash.
C7_ReplayReturnsExisting ==
    \A c \in RecReqs :
        (/\ recReq[c].pc = "done"
         /\ recReq[c].known
         /\ recReq[c].resp.error \notin {"TransactionNotFound", "PersistenceError",
                                          "Failed to check approval status"}) =>
            /\ recReq[c].resp.code = 200
            /\ recReq[c].approval.txHash = recReq[c].txHash

\* C7 witness of the divergence: a call with a txHash the ledger held was
\* answered 500 on the rejected insert.
C7_Witness ==
    \E c \in RecReqs :
        /\ recReq[c].known
        /\ recReq[c].resp = [code |-> 500, error |-> "DuplicateKey"]
        /\ \E i \in 1..Len(approvals) : approvals[i].txHash = recReq[c].txHash

-----------------------------------------------------------------------------
(* Properties of the amount preconditions (SpecCompare) *)

\* a > b of two decimal numerals as integers: padded with zeros to one
\* length, the first digit in which they differ is larger in a.
DecimalGreater(a, b) ==
    LET n == IF Len(a) > Len(b) THEN Len(a) ELSE Len(b)
        pad(x) == [i \in 1..n |-> IF i <= n - Len(x) THEN 0 ELSE x[i - (n - Len(x))]]
    IN \E i \in 1..n : pad(a)[i] > pad(b)[i] /\ \A j \in 1..(i - 1) : pad(a)[j] = pad(b)[j]

\* C12: the preconditions compare the amounts as exact integers of any size:
\* the verdict is InsufficientAllowance exactly when the amount is greater
\* than the allowance as an integer, and InsufficientBalance exactly when it
\* is not but the amount is greater than the balance; on numerals of at most
\* two digits the order is the order of their values.
C12_ExactIntegerComparison ==
    /\ cmp.verdict # "unchecked" =>
          /\ cmp.verdict = "InsufficientAllowance" <=>
                 DecimalGreater(cmp.amount, cmp.allowance)
          /\ cmp.verdict = "InsufficientBalance" <=>
                 /\ ~DecimalGreater(cmp.amount, cmp.allowance)
                 /\ DecimalGreater(cmp.amount, cmp.balance)
    /\ (Len(cmp.amount) <= 2 /\ Len(cmp.allowance) <= 2) =>
          (DecimalGreater(cmp.amount, cmp.allowance) <=>
              BigInt(cmp.amount) > BigInt(cmp.allowance))

\* C12 witness: the amount 2^64 against the allowance 2^64 - 1 was rejected.
C12_Witness ==
    /\ cmp.amount = Pow64
    /\ cmp.allowance = Pow64Minus1
    /\ cmp.verdict = "InsufficientAllowance"

-----------------------------------------------------------------------------
(* Properties of the ERC-20 pull-back, continued (SpecERC20) *)

LiveAllowance(q) == erc20Allowance[ToLower(erc20Req[q].fromAddress)]

LiveBalance(q) == erc20Balance[ToLower(erc20Req[q].fromAddress)]

\* C13: a pullBackERC20 request comes to its chain write only through the
\* controller's read and the service's read of the live status, each of which
\* found allowance >= amount and balance >= amount; a controller read that
\* returns allowance >= amount and balance < amount answers 400
\* InsufficientBalance, one that returns both below the amount answers 400
\* InsufficientAllowance, and neither request has made a chain write.
C13_WriteOnlyWhenBothSuffice ==
    /\ [](\A q \in ERC20Reqs :
            /\ ERC20Writes(q) # {} =>
                  erc20Req[q].pc \notin {"idle", "checkStatus", "svcStatus", "chainWrite"}
            /\ erc20Req[q].resp.error \in {"InsufficientBalance", "InsufficientAllowance"} =>
                  ERC20Writes(q) = {} /\ erc20Req[q].txHash = "")
    /\ [][\A q \in ERC20Reqs :
            LET amount == BigInt(erc20Req[q].amount)
                read == /\ erc20Req[q].pc = "checkStatus"
                        /\ erc20Req'[q].pc \notin {"checkStatus", "catch"}
            IN /\ (erc20Req[q].pc \in {"checkStatus", "svcStatus"}
                    /\ erc20Req'[q].pc \in {"svcStatus", "chainWrite"}
                    /\ erc20Req'[q].pc # erc20Req[q].pc) =>
                      LiveAllowance(q) >= amount /\ LiveBalance(q) >= amount
               /\ erc20Req'[q].pc = "chainWrite" => erc20Req[q].pc \in {"svcStatus", "chainWrite"}
               /\ (read /\ LiveAllowance(q) >= amount /\ LiveBalance(q) < amount) =>
                      /\ erc20Req'[q].resp = [code |-> 400, error |-> "InsufficientBalance"]
                      /\ chainWrites' = chainWrites
               /\ (read /\ LiveAllowance(q) < amount /\ LiveBalance(q) < amount) =>
                      /\ erc20Req'[q].resp = [code |-> 400, error |-> "InsufficientAllowance"]
                      /\ chainWrites' = chainWrites]_vars

\* C13 witness: a request whose allowance covered the amount and whose
\* balance did not was answered InsufficientBalance.
C13_Witness ==
    \E q \in ERC20Reqs :
        /\ erc20Req[q].resp = [code |-> 400, error |-> "InsufficientBalance"]
        /\ LiveAllowance(q) >= BigInt(erc20Req[q].amount)
        /\ LiveBalance(q) < BigInt(erc20Req[q].amount)

-----------------------------------------------------------------------------
(* Properties of the event handlers, continued (Spec) *)

\* C18: when a Transfer event whose `to` is the recorded recipientAddress,
\* whatever the case of the letters, is handled for a record stored as
\* minted, the stored status becomes redeemed.
C18_TransferToRecipientRedeems ==
    [][\A e \in events :
          (/\ e.kind = "Transfer"
           /\ events' = events \ {e}
           /\ nftStore[e.tokenId].exists
           /\ nftStore[e.tokenId].status = "minted"
           /\ ToLower(e.to) = ToLower(nftStore[e.tokenId].recipientAddress)) =>
              nftStore'[e.tokenId].status = "redeemed"]_vars

-----------------------------------------------------------------------------
(* Properties of pulls that follow one another (SpecRepull) *)

\* A pullToken request for the token has answered with success: the audit
\* call that precedes the success response was made.
PullSucceeded(t) ==
    \E i \in 1..Len(auditCalls) :
        auditCalls[i].action = "token_pulled" /\ auditCalls[i].tokenId = t

\* C15: the first step of a pullToken request, its body complete and the
\* store available, answers 404 NotFound when the token has no record and 400
\* InvalidState when the record is uploaded, pulled or revoked, and then
\* nothing stored or on the chain has changed; and a request for a token that
\* an earlier pullToken pulled with success answers InvalidState.
C15_MissingOrInvalidStateRejected ==
    [][\A r \in PullReqs :
          (/\ pullReq[r].pc = "idle" /\ pullReq'[r].pc # "idle"
           /\ pullReq'[r].resp.error \notin {"MissingField", "PersistenceError"}) =>
              LET t == pullReq'[r].tokenId
              IN /\ ~nftStore[t].exists =>
                        pullReq'[r].resp = [code |-> 404, error |-> "NotFound"]
                 /\ (nftStore[t].exists
                      /\ nftStore[t].status \in {"uploaded", "pulled", "revoked"}) =>
                        pullReq'[r].resp = [code |-> 400, error |-> "InvalidState"]
                 /\ pullReq'[r].resp.error \in {"NotFound", "InvalidState"} =>
                        UNCHANGED <<nftStore, approvals, erc20Pullbacks, auditLog,
                                    auditCalls, chainWrites, chainOwner, nextTx>>
                 /\ PullSucceeded(t) =>
                        pullReq'[r].resp = [code |-> 400, error |-> "InvalidState"]]_vars

\* C15 witness of the divergence: a pullToken request has passed the status
\* check for a token that an earlier request pulled with success.
C15_Witness ==
    \E r \in PullReqs :
        /\ pullReq[r].pc = "getOwner"
        /\ PullSucceeded(pullReq[r].tokenId)

-----------------------------------------------------------------------------
(* Properties of the event monitor (SpecMonitor) *)

\* C16: whatever startMonitoring and stopMonitoring calls were made, once no
\* registration is in flight each of the four event kinds has at most one
\* listener, and the monitoring flag is true exactly when listeners are
\* registered.
C16_AtMostOneListenerFlagMatches ==
    pendingOn = 0 =>
        /\ \A k \in EventKinds : listeners[k] <= 1
        /\ isMonitoring <=> (\E k \in EventKinds : listeners[k] > 0)

\* C16 witness of the divergence: an event kind has two listeners.
C16_Witness ==
    /\ pendingOn = 0
    /\ isMonitoring
    /\ listeners["Transfer"] = 2

\* C17: a step of an event listener, whether its handler succeeds or fails,
\* takes the event, logs the outcome and leaves the monitoring flag and the
\* registered listeners as they were, so the events that are still pending are
\* still handled.
C17_HandlerFailureIsContained ==
    [][\A e \in events :
          (e \notin events' /\ events' \subseteq events) =>
              /\ isMonitoring' = isMonitoring
              /\ listeners' = listeners
              /\ pendingOn' = pendingOn
              /\ events' = events \ {e}
              /\ Len(handlerLog') = Len(handlerLog) + 1
              /\ handlerLog'[Len(handlerLog')].txHash = e.txHash
              /\ handlerLog'[Len(handlerLog')].outcome = "error" =>
                     approvals' = approvals]_vars

\* C17 witness: a handler failed, and an event seen after the failure was
\* recorded, the monitor running with its listeners in place all along.
C17_Witness ==
    /\ isMonitoring
    /\ \A k \in EventKinds : listeners[k] = 1
    /\ \E i, j \in 1..Len(handlerLog) :
          /\ i < j
          /\ handlerLog[i].outcome = "error"
          /\ handlerLog[j].outcome = "recorded"
          /\ handlerLog[i].txHash = TxHash(1)
          /\ handlerLog[j].txHash = TxHash(2)
          /\ \E a \in 1..Len(approvals) : approvals[a].txHash = TxHash(2)

-----------------------------------------------------------------------------
(* Properties of reconcileData (SpecSweep, SpecSweepFair) *)

\* C19: a step of the reconciliation sweep leaves the NFT records, both
\* approval ledgers, the pullback history and the audit log as they were,
\* whatever discrepancies it finds.
C19_SweepChangesNoStoredState ==
    [][sweep' # sweep =>
          UNCHANGED <<nftStore, approvals, erc20Approvals, erc20Pullbacks,
                      auditLog, auditCalls>>]_vars

\* C19 witness: a sweep has ended after reading one owner that matches the
\* record and one that does not.
C19_Witness ==
    /\ sweep.pc = "done"
    /\ sweep.discrepancies # {}
    /\ \E x \in sweep.read : x.tokenId \notin sweep.discrepancies

\* The records a sweep has visited or is still to visit.
SweepVisits(s) ==
    {x.tokenId : x \in s.read} \cup s.failed
        \cup {s.queue[i].tokenId : i \in 1..Len(s.queue)}

\* The records whose status is minted or redeemed.
MintedOrRedeemed ==
    {t \in DOMAIN nftStore :
        nftStore[t].exists /\ nftStore[t].status \in {"minted", "redeemed"}}

\* C20: a sweep whose query succeeds visits exactly the records whose status
\* is minted or redeemed, each once; every turn reads the live owner of the
\* next record; the discrepancies reported are exactly the records whose read
\* succeeded with an owner that differs from recipientAddress without regard
\* to case; a failed read adds no discrepancy and the sweep goes on; and a
\* running sweep ends, after the last of these records.
C20_SweepVisitsAndReportsExactly ==
    /\ [](/\ sweep.discrepancies =
               {x.tokenId : x \in {y \in sweep.read :
                   ToLower(y.owner) # ToLower(nftStore[y.tokenId].recipientAddress)}}
          /\ sweep.failed \cap {x.tokenId : x \in sweep.read} = {}
          /\ (sweep.pc = "done") => (sweep.queue = <<>>))
    /\ [][/\ (sweep.pc # "running" /\ sweep' # sweep /\ sweep'.pc # "error") =>
                /\ SweepVisits(sweep') = MintedOrRedeemed
                /\ Len(sweep'.queue) = Cardinality(MintedOrRedeemed)
                /\ sweep'.read = {} /\ sweep'.failed = {}
          /\ (sweep.pc = "running" /\ sweep' # sweep) =>
                LET t == Head(sweep.queue).tokenId
                IN /\ sweep'.queue = Tail(sweep.queue)
                   /\ SweepVisits(sweep') = SweepVisits(sweep)
                   /\ sweep'.pc = IF sweep'.queue = <<>> THEN "done" ELSE "running"
                   /\ \/ /\ sweep'.read = sweep.read \cup
                                {[tokenId |-> t, owner |-> ChecksumAddress(chainOwner[t])]}
                         /\ chainOwner[t] # ""
                         /\ sweep'.failed = sweep.failed
                      \/ /\ sweep'.failed = sweep.failed \cup {t}
                         /\ sweep'.read = sweep.read
                         /\ sweep'.discrepancies = sweep.discrepancies]_vars
    /\ (sweep.pc = "running") ~> (sweep.pc = "done")

\* C20 witness: a sweep has ended with one record whose read failed and one
\* reported as a discrepancy.
C20_Witness ==
    /\ sweep.pc = "done"
    /\ sweep.failed # {}
    /\ sweep.discrepancies # {}
    /\ \E t \in DOMAIN nftStore : nftStore[t].exists /\ t \notin SweepVisits(sweep)

-----------------------------------------------------------------------------
(* Properties of the connected-recipients view (SpecView) *)

\* The summaries a response holds for one recipient.
ViewOf(v, r) == {s \in v.recipients : s.walletAddress = r}

\* C14: a getConnectedRecipients request with an operator and the store
\* available answers with success whichever USDT status reads throw; a
\* recipient whose read throws, and who is listed when it does not, has a
\* summary in the response, with usdt balance "0"; and the summary of every
\* recipient whose read does not throw is what it is when no USDT read throws.
C14_UsdtReadFailureTolerated ==
    [][(/\ view' # view
        /\ view'.resp.error \notin {"MissingField", "PersistenceError"}) =>
          /\ view'.resp.code = 200
          /\ \A r \in UniqueRecipients(view'.operator) :
                LET unfailed == RecipientSummary(view'.operator, r, FALSE,
                                                 r \in view'.nftFailing,
                                                 r \in view'.usdcFailing)
                    listed == IF unfailed.hasAnyApproval THEN {unfailed} ELSE {}
                IN IF r \in view'.failing
                   THEN listed # {} =>
                          \E s \in ViewOf(view', r) : s.balances.usdt = <<0>>
                   ELSE ViewOf(view', r) = listed]_vars

\* C14 witness of the divergence: the USDT read threw for a recipient whose
\* live allowance is positive, the response is a success that lists the other
\* recipient and holds no summary for this one.
C14_Witness ==
    /\ view.resp.code = 200
    /\ view.failing = {"0xaa"}
    /\ view.total = 2
    /\ ViewOf(view, "0xaa") = {}
    /\ ViewOf(view, "0xbb") # {}
    /\ erc20Allowance["0xaa"] > 0


-----------------------------------------------------------------------------
(* The list of connected recipients *)

\* The candidates of a report: the grantors of the operator's stored ERC-20
\* approvals and the recipients of the operator's NFT records.
Candidates(op) ==
    {ToLower(erc20Approvals[i].walletAddress) : i \in StoredERC20Approvals(op)}
      \cup {ToLower(nftStore[t].recipientAddress) :
               t \in {u \in DOMAIN nftStore : /\ nftStore[u].exists
                                              /\ nftStore[u].investorAddress = op}}

\* What the report read for a candidate: a stored approval, a positive USDT
\* or USDC allowance, or the NFT approval flag; a read that threw reads as
\* nothing.
ReadAsApproved(v, r) ==
    \/ \E i \in StoredERC20Approvals(v.operator) :
          ToLower(erc20Approvals[i].walletAddress) = r
    \/ /\ r \in DOMAIN erc20Allowance
       /\ \/ r \notin v.failing /\ erc20Allowance[r] > 0
          \/ r \notin v.usdcFailing /\ usdcAllowance[r] > 0
    \/ r \notin v.nftFailing /\ <<r, ContractAddress>> \in chainApproved

\* C21: a successful getConnectedRecipients returns exactly the candidates
\* (grantors of the operator's stored ERC-20 approvals and recipients of the
\* operator's NFT records) for which a stored approval exists or the report
\* read a positive USDT allowance, a positive USDC allowance or a true NFT
\* approval flag; a candidate with none of them is left out and no address is
\* listed twice.
C21_ListIsExactlyTheApprovedCandidates ==
    [][(view.pc = "idle" /\ view'.pc = "done" /\ view'.resp.code = 200) =>
         /\ {view'.order[i] : i \in 1..Len(view'.order)}
              = {r \in Candidates(view'.operator) : ReadAsApproved(view', r)}
         /\ \A i, j \in 1..Len(view'.order) :
               view'.order[i] = view'.order[j] => i = j
         /\ {s.walletAddress : s \in view'.recipients}
              = {view'.order[i] : i \in 1..Len(view'.order)}
         /\ Cardinality(view'.recipients) = Len(view'.order)
         /\ view'.total = Cardinality(Candidates(view'.operator))]_vars

\* A report over three candidates: one with a stored approval, one listed
\* only for its USDC allowance, one with nothing and left out.
C21_Witness ==
    /\ view.pc = "done"
    /\ view.resp.code = 200
    /\ view.usdcFailing = {}
    /\ Candidates(view.operator) = {"0xaa", "0xbb", "0xcc"}
    /\ {view.order[i] : i \in 1..Len(view.order)} = {"0xaa", "0xcc"}
    /\ usdcAllowance["0xcc"] > 0
    /\ erc20Allowance["0xcc"] = 0
    /\ <<"0xcc", ContractAddress>> \notin chainApproved
    /\ usdcAllowance["0xbb"] = 0

\* C22: the returned list is ordered by first-approval timestamp, latest
\* first, and every recipient without a timestamp comes after every recipient
\* with one.
C22_ListOrderedByFirstApprovalDescending ==
    [][(view.pc = "idle" /\ view'.pc = "done" /\ view'.resp.code = 200) =>
         \A i, j \in 1..Len(view'.order) :
            i < j =>
              LET a == FirstApprovalAt(view'.operator, view'.order[i])
                  b == FirstApprovalAt(view'.operator, view'.order[j])
              IN /\ a = 0 => b = 0
                 /\ (a # 0 /\ b # 0) => a >= b]_vars

\* The later grantor leads, the earlier follows, the recipient without a
\* stored approval is last.
C22_Witness ==
    /\ view.pc = "done"
    /\ view.resp.code = 200
    /\ view.order = <<"0xbb", "0xaa", "0xcc">>
    /\ FirstApprovalAt(view.operator, "0xaa") = 1
    /\ FirstApprovalAt(view.operator, "0xbb") = 2
    /\ FirstApprovalAt(view.operator, "0xcc") = 0


-----------------------------------------------------------------------------
(* The audit trail (SpecAudit) *)

\* A step in which createAuditLog was called and its write failed.
AuditWriteFailed ==
    /\ Len(auditCalls') = Len(auditCalls) + 1
    /\ auditLog' = auditLog

\* The stores and the chain, which an audit call leaves alone.
PrimaryState == <<nftStore, approvals, erc20Approvals, erc20Pullbacks, chainOwner,
                  chainWrites, erc20Balance, erc20Allowance>>

\* C23: when the write of the audit entry fails in recordApproval,
\* recordERC20Approval, pullToken, pullBackERC20 or mintDirect, the request
\* still answers success and the state change it made before the audit call
\* (the ledger row, the status pulled or minted with its transaction hash,
\* the completed pull-back row) is in the store after the step. A record
\* minted by mintDirect may have been pulled by a later request before the
\* mint's audit call; the mint transaction hash stays on it.
C23_AuditFailureKeepsSuccess ==
    [][AuditWriteFailed =>
         LET e == auditCalls'[Len(auditCalls')]
         IN /\ PrimaryState' = PrimaryState
            /\ e.action \in {"approval_recorded", "erc20_approval_recorded",
                             "token_pulled", "erc20_pulled", "nft_minted"}
            /\ e.action = "approval_recorded" =>
                 \E c \in RecReqs :
                    /\ recReq[c].pc = "audit" /\ recReq'[c].pc = "done"
                    /\ recReq'[c].resp.code = 200
                    /\ \E i \in 1..Len(approvals') :
                          /\ approvals'[i].txHash = recReq[c].txHash
                          /\ approvals'[i].walletAddress = ToLower(recReq[c].walletAddress)
            /\ e.action = "erc20_approval_recorded" =>
                 \E c \in RecReqs :
                    /\ erc20RecReq[c].pc = "audit" /\ erc20RecReq'[c].pc = "done"
                    /\ erc20RecReq'[c].resp.code = 200
                    /\ \E i \in 1..Len(erc20Approvals') :
                          /\ erc20Approvals'[i].txHash = erc20RecReq[c].txHash
                          /\ erc20Approvals'[i].tokenContract = erc20RecReq[c].tokenContract
            /\ e.action = "token_pulled" =>
                 \E r \in PullReqs :
                    /\ pullReq[r].pc = "audit" /\ pullReq'[r].pc = "done"
                    /\ pullReq'[r].resp.code = 200
                    /\ nftStore'[pullReq[r].tokenId].status = "pulled"
                    /\ nftStore'[pullReq[r].tokenId].pullTxHash = pullReq[r].txHash
            /\ e.action = "erc20_pulled" =>
                 \E q \in ERC20Reqs :
                    /\ erc20Req[q].pc = "audit" /\ erc20Req'[q].pc = "done"
                    /\ erc20Req'[q].resp.code = 200
                    /\ \E i \in 1..Len(erc20Pullbacks') :
                          /\ erc20Pullbacks'[i].txHash = erc20Req[q].txHash
                          /\ erc20Pullbacks'[i].status = "completed"
            /\ e.action = "nft_minted" =>
                 \E m \in MintReqs :
                    /\ mintReq[m].pc = "audit" /\ mintReq'[m].pc = "done"
                    /\ mintReq'[m].resp.code = 200
                    /\ nftStore'[mintReq[m].tokenId].status \in {"minted", "pulled"}
                    /\ nftStore'[mintReq[m].tokenId].mintTxHash = mintReq[m].txHash]_vars

\* The mint, the pull and the two approval reports have answered success,
\* none of their audit entries was written, and their changes are stored.
C23_Witness ==
    /\ auditLog = <<>>
    /\ {auditCalls[i].action : i \in 1..Len(auditCalls)}
          = {"approval_recorded", "erc20_approval_recorded", "token_pulled",
             "nft_minted"}
    /\ recReq[1].resp.code = 200
    /\ erc20RecReq[1].resp.code = 200
    /\ pullReq[1].resp.code = 200
    /\ mintReq[1].resp.code = 200
    /\ nftStore["1"].status = "pulled"
    /\ nftStore["1"].mintTxHash # ""
    /\ Len(approvals) = 1
    /\ Len(erc20Approvals) = 1


-----------------------------------------------------------------------------
(* One response per request (SpecRespondFair) *)

\* The requests of the six core operations.
CoreRequests == <<pullReq[1], erc20Req[1], recReq[1], erc20RecReq[1], statusReq, view>>

\* C24: a request of recordApproval, recordERC20Approval, getApprovalStatus,
\* getConnectedRecipients, pullToken or pullBackERC20 ends with exactly one
\* response whatever chain or store call fails: a received request is
\* eventually answered, it is at its end exactly when it has been answered,
\* and an answered request takes no further step.
C24_ExactlyOneResponse ==
    /\ [](\A i \in 1..Len(CoreRequests) :
            /\ (CoreRequests[i].pc = "done") <=> (CoreRequests[i].resp.code # 0)
            /\ CoreRequests[i].resp.code \in {0, 200, 400, 403, 404, 500})
    /\ [][\A i \in 1..Len(CoreRequests) :
            CoreRequests[i].resp.code # 0 => CoreRequests'[i] = CoreRequests[i]]_vars
    /\ (pullReq[1].pc # "idle") ~> (pullReq[1].pc = "done")
    /\ (erc20Req[1].pc # "idle") ~> (erc20Req[1].pc = "done")
    /\ (recReq[1].pc # "idle") ~> (recReq[1].pc = "done")
    /\ (erc20RecReq[1].pc # "idle") ~> (erc20RecReq[1].pc = "done")
    /\ (statusReq.pc # "idle") ~> (statusReq.pc = "done")
    /\ (view.pc # "idle") ~> (view.pc = "done")

\* A pull whose chain write was sent and failed has been answered with 500.
C24_Witness ==
    /\ pullReq[1].pc = "done"
    /\ pullReq[1].resp = [code |-> 500, error |-> "Failed to pull token"]
    /\ chainWrites # {}


-----------------------------------------------------------------------------
(* Rejected approval reports (SpecReject) *)

\* The rejections of a report before anything is written.
RejectionErrors == {"MissingField", "UnsupportedToken", "TransactionNotFound"}

\* C25: recordERC20Approval with a token contract outside the allow-list
\* fails with UnsupportedToken without a chain call; recordApproval and
\* recordERC20Approval with a missing field, or with a txHash that has no
\* receipt, fail; the rejecting step writes no ledger row and no audit entry,
\* and the rejected request has written none before.
C25_RejectionWritesNothing ==
    /\ [](\A c \in RecReqs :
            /\ (erc20RecReq[c].pc = "done" /\ erc20RecReq[c].resp.error \in RejectionErrors)
                 => /\ erc20RecReq[c].resp.code = 400
                    /\ erc20RecReq[c].approval = NoRow
                    /\ erc20RecReq[c].resp.error \in {"UnsupportedToken", "MissingField"}
                         => erc20RecReq[c].receiptLookups = 0
            /\ (erc20RecReq[c].pc = "done"
                  /\ erc20RecReq[c].walletAddress # "" /\ erc20RecReq[c].operatorAddress # ""
                  /\ erc20RecReq[c].txHash # ""
                  /\ TokenInfoSymbol(erc20RecReq[c].tokenContract) = "")
                 => erc20RecReq[c].resp.error = "UnsupportedToken"
            /\ (recReq[c].pc = "done" /\ recReq[c].resp.error \in RejectionErrors)
                 => /\ recReq[c].resp.code = 400
                    /\ recReq[c].approval = NoRow)
    /\ [][\A c \in RecReqs :
            /\ (erc20RecReq[c].pc # "done" /\ erc20RecReq'[c].pc = "done"
                  /\ erc20RecReq'[c].resp.error \in RejectionErrors)
                 => UNCHANGED <<approvals, erc20Approvals, auditLog, auditCalls,
                                chainWrites, nextTx>>
            /\ (recReq[c].pc # "done" /\ recReq'[c].pc = "done"
                  /\ recReq'[c].resp.error \in RejectionErrors)
                 => UNCHANGED <<approvals, erc20Approvals, auditLog, auditCalls,
                                chainWrites, nextTx>>]_vars

\* A report for an unlisted token was rejected without a receipt lookup and a
\* report of an unmined transaction was rejected, with the ledger and the
\* audit log empty.
C25_Witness ==
    /\ erc20RecReq[1].pc = "done"
    /\ erc20RecReq[1].resp.error = "UnsupportedToken"
    /\ erc20RecReq[1].tokenContract = "0xdead"
    /\ erc20RecReq[1].receiptLookups = 0
    /\ recReq[1].pc = "done"
    /\ recReq[1].resp.error = "TransactionNotFound"
    /\ recReq[1].receiptLookups = 1
    /\ approvals = <<>>
    /\ erc20Approvals = <<>>
    /\ auditCalls = <<>>


-----------------------------------------------------------------------------
(* The order of the steps of pullToken (SpecRepull) *)

\* C26: within a pullToken request the chain pull is confirmed first, then
\* the record is stored as pulled with the hash of that pull, then the audit
\* entry is written; a failed chain pull is answered 500 with the stores and
\* the audit trail unchanged; and a record becomes pulled only by the save of
\* a request whose chain pull was confirmed, or by the TokenPulledBack
\* handler.
C26_PullThenStatusThenAudit ==
    /\ [](\A r \in PullReqs :
            /\ pullReq[r].pc \in {"save", "audit"}
                 => pullReq[r].txHash # "" /\ HasReceipt(pullReq[r].txHash)
            /\ pullReq[r].txHash = ""
                 => pullReq[r].pc \notin {"save", "audit"} /\ pullReq[r].resp.code # 200)
    /\ [][\A r \in PullReqs :
            LET t == pullReq[r].tokenId
            IN /\ (pullReq[r].pc # "save" /\ pullReq'[r].pc = "save")
                    => /\ pullReq[r].pc = "chainPull"
                       /\ chainOwner[t] = pullReq[r].currentOwner
                       /\ chainOwner'[t] = WalletAddress
                       /\ pullReq'[r].txHash = TxHash(nextTx)
                       /\ nextTx' = nextTx + 1
                       /\ UNCHANGED <<nftStore, auditCalls, auditLog>>
               /\ (pullReq[r].pc # "audit" /\ pullReq'[r].pc = "audit")
                    => /\ pullReq[r].pc = "save"
                       /\ nftStore'[t].status = "pulled"
                       /\ nftStore'[t].pullTxHash = pullReq[r].txHash
                       /\ UNCHANGED <<auditCalls, auditLog>>
               /\ (pullReq[r].pc = "audit" /\ pullReq'[r].pc # "audit")
                    => /\ pullReq'[r].resp.code = 200
                       /\ Len(auditCalls') = Len(auditCalls) + 1
                       /\ auditCalls'[Len(auditCalls')].action = "token_pulled"
                       /\ auditCalls'[Len(auditCalls')].txHash = pullReq[r].txHash
                       /\ nftStore[t].pullTxHash = pullReq[r].txHash
                       /\ nftStore' = nftStore
               /\ (pullReq[r].pc = "chainPull" /\ pullReq'[r].pc = "done")
                    => /\ pullReq'[r].resp.code = 500
                       /\ UNCHANGED <<nftStore, auditCalls, auditLog>>]_vars
    /\ [][(/\ Len(auditCalls') > Len(auditCalls)
           /\ auditCalls'[Len(auditCalls')].action = "token_pulled")
            => \E r \in PullReqs : pullReq[r].pc = "audit" /\ pullReq'[r].pc = "done"]_vars
    /\ [][\A t \in Tokens :
            (nftStore[t].status # "pulled" /\ nftStore'[t].status = "pulled")
              => \/ \E r \in PullReqs :
                      /\ pullReq[r].pc = "save" /\ pullReq'[r].pc = "audit"
                      /\ pullReq[r].tokenId = t
                      /\ HasReceipt(pullReq[r].txHash)
                 \/ \E e \in events : e.kind = "TokenPulledBack" /\ e \notin events']_vars

\* A request has gone through the three steps: the pull is on chain, the
\* record is pulled with its hash and the audit entry carries the same hash.
C26_Witness ==
    /\ pullReq[1].pc = "done"
    /\ pullReq[1].resp.code = 200
    /\ chainOwner["1"] = WalletAddress
    /\ nftStore["1"].status = "pulled"
    /\ nftStore["1"].pullTxHash = pullReq[1].txHash
    /\ \E i \in 1..Len(auditLog) :
          /\ auditLog[i].action = "token_pulled"
          /\ auditLog[i].txHash = pullReq[1].txHash


-----------------------------------------------------------------------------
(* The owner a pull acts on (SpecOwner) *)

\* C27: the address a pullToken request checks the operator's approval for,
\* passes to the chain pull as `from` and returns as fromAddress is the owner
\* its own ownerOf read returned, whether or not that is the record's
\* recipientAddress.
C27_PullActsOnLiveOwner ==
    [][\A r \in PullReqs :
         LET t == pullReq[r].tokenId
             read == pullReq[r].currentOwner
         IN /\ (pullReq[r].pc = "getOwner" /\ pullReq'[r].pc = "checkApproval")
                 => pullReq'[r].currentOwner = chainOwner[t]
            /\ (pullReq[r].pc \in {"checkApproval", "svcCheck", "chainPull", "save", "audit"}
                  /\ pullReq'[r].pc # "idle")
                 => pullReq'[r].currentOwner = read
            /\ (pullReq[r].pc = "checkApproval" /\ pullReq'[r].pc = "svcCheck")
                 => <<read, ToLower(pullReq[r].operatorAddress)>> \in chainApproved
            /\ (pullReq[r].pc = "checkApproval" /\ pullReq'[r].resp.code = 403)
                 => <<read, ToLower(pullReq[r].operatorAddress)>> \notin chainApproved
            /\ (pullReq[r].pc = "chainPull" /\ pullReq'[r].pc # "chainPull")
                 => /\ \A w \in chainWrites' \ chainWrites :
                          w.req = r => w.from = read /\ w.tokenId = t
                    /\ \E w \in chainWrites' : w.req = r /\ w.from = read
            /\ (pullReq[r].pc = "audit" /\ pullReq'[r].pc = "done")
                 => pullReq'[r].fromAddress = read]_vars

\* A token minted to 0xaa and transferred to 0xbb was pulled from 0xbb, and
\* the response names 0xbb.
C27_Witness ==
    /\ pullReq[1].pc = "done"
    /\ pullReq[1].resp.code = 200
    /\ pullReq[1].fromAddress = "0xbb"
    /\ nftStore["1"].recipientAddress = "0xaa"
    /\ \E w \in chainWrites : w.req = 1 /\ w.from = "0xbb" /\ w.tokenId = "1"
    /\ chainOwner["1"] = WalletAddress


-----------------------------------------------------------------------------
(* mintDirect and the status of the record (SpecRemint) *)

\* C28: mintDirect moves the status of a record only from uploaded to
\* minted: the save of a mintDirect request on a record that is minted,
\* redeemed, pulled or revoked leaves the stored status as it is.
C28_MintOnlyFromUploaded ==
    [][\A m \in MintReqs :
         (mintReq[m].pc = "save" /\ mintReq'[m].pc # "save")
           => LET t == mintReq[m].tokenId
              IN nftStore'[t].status # nftStore[t].status
                   => nftStore[t].status = "uploaded" /\ nftStore'[t].status = "minted"]_vars

\* A record that was pulled is minted again: the token of the first mint is
\* at the operator, the record says minted and still carries the pull's hash.
C28_Witness ==
    /\ mintReq[1].pc = "done"
    /\ mintReq[1].resp.code = 200
    /\ mintReq[1].tokenId = "1"
    /\ nftStore["1"].status = "minted"
    /\ nftStore["1"].pullTxHash # ""
    /\ chainOwner["1"] = WalletAddress
    /\ chainOwner["2"] = "0xaa"


-----------------------------------------------------------------------------
(* The approval ledger under concurrent event handlers (SpecUpsert) *)

\* The rows of the ledger for a grantor and an operator.
PairRows(owner, operator) ==
    {i \in 1..Len(approvals) : /\ approvals[i].walletAddress = ToLower(owner)
                               /\ approvals[i].operatorAddress = ToLower(operator)}

\* C29: with the ledger written by ApprovalForAll event handling alone, it
\* holds at most one row for a grantor and an operator in every reachable
\* state, also when two events of a pair without a row are handled
\* concurrently.
C29_OneRowPerPair ==
    \A a \in Holders, o \in Operators : Cardinality(PairRows(a, o)) <= 1

\* Two handlers of one pair have both inserted: the grant and the revocation
\* are two rows.
C29_Witness ==
    /\ upserts = {}
    /\ events = {}
    /\ Len(approvals) = 2
    /\ approvals[1].walletAddress = approvals[2].walletAddress
    /\ approvals[1].operatorAddress = approvals[2].operatorAddress
    /\ approvals[1].txHash # approvals[2].txHash

\* Every emitted ApprovalForAll event has been handled to its end.
AllApprovalEventsHandled ==
    /\ upserts = {}
    /\ \A e \in events : e.kind # "ApprovalForAll"
    /\ nextTx > 1

\* C30: once every ApprovalForAll event of a pair has been handled, the row
\* of the pair carries isApproved and txHash of the event that is last on
\* chain, whatever the order in which the handlers ran.
C30_RowCarriesLastEvent ==
    AllApprovalEventsHandled =>
      \A a \in Holders, o \in Operators :
         /\ PairRows(a, o) # {}
         /\ LET first == CHOOSE i \in PairRows(a, o) : \A j \in PairRows(a, o) : i <= j
            IN /\ approvals[first].isApproved = (<<a, o>> \in chainApproved)
               /\ approvals[first].txHash = TxHash(nextTx - 1)

\* The grant and the revocation were handled in reverse: the single row says
\* approved with the grant's hash while the chain says revoked.
C30_Witness ==
    /\ AllApprovalEventsHandled
    /\ nextTx = 3
    /\ chainApproved = {}
    /\ Len(approvals) = 1
    /\ approvals[1].isApproved
    /\ approvals[1].txHash = TxHash(1)

-----------------------------------------------------------------------------
(* The approval ledger fed by events and by client reports (SpecLedger) *)

\* C31: after an ApprovalForAll event is handled with the store available,
\* the approval ledger contains a row for (owner, operator) with the event's
\* isApproved and txHash, also when client-reported rows for the same pair or
\* a row with the same txHash already exist.
C31_HandledEventIsInLedger ==
    [][\A e \in events :
          handleApprovalForAllEvent(e, TRUE) =>
             \E i \in 1..Len(approvals') : approvals'[i] = ApprovalRowOf(e)]_vars

\* The revocation 0x2 was reported by the client after the holder granted
\* again, so its row says approved; the event of 0x2 has been handled and the
\* ledger has no row that says revoked with 0x2.
C31_Witness ==
    /\ nextTx = 4
    /\ \A e \in events : e.txHash # TxHash(2)
    /\ Len(approvals) = 2
    /\ approvals[1].txHash = TxHash(1)
    /\ approvals[2].txHash = TxHash(2)
    /\ approvals[2].isApproved
    /\ approvals[1].walletAddress = approvals[2].walletAddress
    /\ approvals[1].operatorAddress = approvals[2].operatorAddress

\* The ledger holds a row with the transaction hash.
HasRowWith(rows, txHash) == \E i \in 1..Len(rows) : rows[i].txHash = txHash

\* C32: approval ledger history is never lost: once a row with txHash T has
\* been recorded (by recordApproval or by event handling), a row with txHash
\* T is present in every later state, whatever recordApproval calls and
\* ApprovalForAll events follow.
C32_LedgerHistoryIsKept ==
    [][\A n \in 1..MaxTx :
          HasRowWith(approvals, TxHash(n)) => HasRowWith(approvals', TxHash(n))]_vars

\* recordApproval answered 200 with the row it created for a transaction, and
\* the ledger holds no row with that transaction hash any more.
C32_Witness ==
    \E c \in RecReqs :
        /\ recReq[c].pc = "done"
        /\ recReq[c].resp.code = 200
        /\ recReq[c].approval.txHash # ""
        /\ ~HasRowWith(approvals, recReq[c].approval.txHash)

-----------------------------------------------------------------------------
(* The stored approval a view shows (SpecViewHistory) *)

\* The stored approval rows of a recipient for a token and an operator.
TokenRows(operatorAddress, recipientAddress, token) ==
    {i \in StoredERC20Approvals(operatorAddress) :
        /\ ToLower(erc20Approvals[i].walletAddress) = recipientAddress
        /\ ToLower(erc20Approvals[i].tokenContract) = token}

\* The row with the latest timestamp: rows are stamped at their creation.
LatestRow(rows) == CHOOSE i \in rows : \A j \in rows : j <= i

\* C33: for a recipient with several stored ERC-20 approval rows for the same
\* token and operator, the txHash and approvedAt that getConnectedRecipients
\* shows for that token are those of the row with the latest timestamp.
C33_ViewShowsLatestStoredApproval ==
    [][(view.pc = "idle" /\ view'.pc = "done" /\ view'.resp.code = 200) =>
          \A s \in view'.recipients :
             LET usdt == TokenRows(view'.operator, s.walletAddress, UsdtAddress)
                 usdc == TokenRows(view'.operator, s.walletAddress, UsdcAddress)
             IN /\ Cardinality(usdt) > 1 =>
                      /\ s.approvals.usdt.approvedAt = LatestRow(usdt)
                      /\ s.approvals.usdt.txHash = erc20Approvals[LatestRow(usdt)].txHash
                /\ Cardinality(usdc) > 1 =>
                      /\ s.approvals.usdc.approvedAt = LatestRow(usdc)
                      /\ s.approvals.usdc.txHash = erc20Approvals[LatestRow(usdc)].txHash]_vars

\* The view shows the hash of the holder's first USDT approval while the
\* ledger holds a later row of the same holder, token and operator.
C33_Witness ==
    /\ view.pc = "done" /\ view.resp.code = 200
    /\ \E s \in view.recipients :
          LET usdt == TokenRows(view.operator, s.walletAddress, UsdtAddress)
          IN /\ Cardinality(usdt) > 1
             /\ s.approvals.usdt.approvedAt # LatestRow(usdt)
             /\ s.approvals.usdt.txHash = TxHash(1)
             /\ erc20Approvals[LatestRow(usdt)].txHash = TxHash(2)

-----------------------------------------------------------------------------
(* The sweep and the pulls the store missed (SpecMirrorFair) *)

\* The token was pulled on chain, the pullToken request is over, and the
\* record is still minted or redeemed.
TokenMirrorStale(t) ==
    /\ nftStore[t].exists
    /\ nftStore[t].status \in {"minted", "redeemed"}
    /\ chainOwner[t] = WalletAddress
    /\ \A r \in PullReqs : pullReq[r].tokenId = t => pullReq[r].pc \in {"idle", "done"}

\* The pullBackERC20 request is over, its transaction was confirmed, and the
\* history has no completed row for it.
ERC20MirrorStale(q) ==
    /\ erc20Req[q].pc = "done"
    /\ erc20Req[q].confirmed
    /\ CompletedRows(q) = {}

\* C34: if a pull succeeded on chain but the local mirror was not updated
\* (pullToken: the record is still minted or redeemed after the token left
\* the recipient; pullBackERC20: no completed row exists for the confirmed
\* transaction), the next reconcileData run reports the divergence.
C34_SweepReportsMissedPull ==
    /\ \A t \in Tokens :
          TokenMirrorStale(t) ~> (sweep.pc = "done" /\ t \in sweep.discrepancies)
    /\ \A q \in ERC20Reqs :
          ERC20MirrorStale(q) ~>
             (sweep.pc = "done" /\ erc20Req[q].txHash \in sweep.discrepancies)

\* The token half of C34 alone.
C34_SweepReportsStaleToken ==
    \A t \in Tokens :
        TokenMirrorStale(t) ~> (sweep.pc = "done" /\ t \in sweep.discrepancies)

\* A sweep that started after the ERC-20 pull's history write failed has
\* ended without a report.
C34_Witness ==
    /\ ERC20MirrorStale(1)
    /\ erc20Req[1].resp.code = 500
    /\ sweep.pc = "done"
    /\ sweep.discrepancies = {}
    /\ sweep.read # {}

-----------------------------------------------------------------------------
(* The SIWE nonces (SpecAuth) *)

\* The verification succeeded: the controller answered with the token.
SiweSucceeded(v) == siweReq[v].pc = "done" /\ siweReq[v].resp.code = 200

\* C35: a SIWE nonce authenticates at most one successful verifySiweMessage:
\* after a verification with nonce n succeeds, every other verification
\* presenting n fails, including one that started before the first one
\* finished.
C35_NonceAuthenticatesOnce ==
    \A v, w \in SiweReqs :
        (SiweSucceeded(v) /\ SiweSucceeded(w) /\ siweReq[v].nonce = siweReq[w].nonce)
            => v = w

\* Two verifications of one nonce have both succeeded.
C35_Witness ==
    /\ SiweSucceeded(1) /\ SiweSucceeded(2)
    /\ siweReq[1].nonce = siweReq[2].nonce
    /\ nonceStore = {}

\* C36: verifySiweMessage never succeeds with a nonce that was issued more
\* than 10 minutes before it was presented, whether or not the periodic
\* cleanup has run; presenting such a nonce fails and removes it from the
\* store, and a nonce that was never issued always fails.
C36_MaxAgeAndUnknownNonceFail ==
    /\ [](\A v \in SiweReqs :
            SiweSucceeded(v) =>
               /\ siweReq[v].nonce < nextNonce
               /\ siweReq[v].now - siweReq[v].createdAt <= MaxNonceAge)
    /\ [][\A v \in SiweReqs, n \in NonceInputs :
            (siweReq[v].pc = "idle" /\ siweReq'[v].pc # "idle" /\ siweReq'[v].nonce = n) =>
               /\ (\E e \in nonceStore : e.nonce = n /\ clock - e.createdAt > MaxNonceAge) =>
                     /\ siweReq'[v].pc = "done"
                     /\ siweReq'[v].resp.code = 401
                     /\ \A e \in nonceStore' : e.nonce # n
               /\ n >= nextNonce =>
                     /\ siweReq'[v].pc = "done"
                     /\ siweReq'[v].resp.code = 401]_vars

\* A nonce older than ten minutes that the cleanup had not removed was
\* presented: the verification failed and the nonce is gone; and a nonce
\* that was never issued was refused.
C36_Witness ==
    /\ siweReq[1].pc = "done"
    /\ siweReq[1].resp = [code |-> 401, error |-> "Nonce expired"]
    /\ siweReq[1].now - siweReq[1].createdAt > MaxNonceAge
    /\ \A e \in nonceStore : e.nonce # siweReq[1].nonce
    /\ siweReq[2].pc = "done"
    /\ siweReq[2].nonce >= nextNonce
    /\ siweReq[2].resp = [code |-> 401, error |-> "Invalid or expired nonce"]

-----------------------------------------------------------------------------
(* The content id of an uploaded document (SpecUpload) *)

\* C37: after uploadDocument, if both the record creation and the background
\* upload succeed, the record's encryptedCID eventually equals the real
\* content id (the placeholder temp_<tokenId> is replaced), for every
\* ordering of the upload's completion relative to the record creation;
\* until then a reader sees the placeholder.
C37_PlaceholderIsReplaced ==
    (uploadReq.pc = "done" /\ uploadReq.resp.code = 200) =>
        /\ uploadReq.bg = "done" =>
              encryptedCID[uploadReq.tokenId] = ContentCID(uploadReq.tokenId)
        /\ uploadReq.bg \in {"pinning", "update"} =>
              encryptedCID[uploadReq.tokenId] = PlaceholderCID(uploadReq.tokenId)

\* The record was created and the background upload and its update went
\* through without an error, and the record holds the placeholder.
C37_Witness ==
    /\ uploadReq.pc = "done" /\ uploadReq.resp.code = 200
    /\ uploadReq.bg = "done"
    /\ uploadReq.cid = ContentCID(uploadReq.tokenId)
    /\ nftStore[uploadReq.tokenId].exists
    /\ encryptedCID[uploadReq.tokenId] = PlaceholderCID(uploadReq.tokenId)

-----------------------------------------------------------------------------
(* Concurrent pulls of one token (SpecRace) *)

\* The calls of blockchainService.pullToken made for a token.
PullWritesOf(t) == {w \in chainWrites : w.call = "pullBack" /\ w.tokenId = t}

\* C38: across every interleaving of pullToken requests for the same
\* tokenId, the chain pull write is invoked at most once for that tokenId.
C38_PullWriteInvokedOnce ==
    \A t \in Tokens : Cardinality(PullWritesOf(t)) <= 1

\* Two requests for one token both invoked the chain write: one pulled the
\* token and answered 200, the other's call failed and it answered 500.
C38_Witness ==
    \E r, q \in RaceReqs :
        /\ r # q
        /\ pullReq[r].tokenId = pullReq[q].tokenId
        /\ Cardinality(PullWritesOf(pullReq[r].tokenId)) = 2
        /\ pullReq[r].pc = "done" /\ pullReq[r].resp.code = 200
        /\ pullReq[q].pc = "done" /\ pullReq[q].resp.code = 500
        /\ pullReq[q].isApproved = "true"
        /\ nftStore[pullReq[r].tokenId].status = "pulled"

====
